---- MODULE Spec2Model ----
(***************************************************************************)
(* Knuth-Plass line breaking as implemented by class Break of              *)
(* src/breaker.ts (lines 799-1167), with the item classes Box, Glue,       *)
(* Penalty, Paragraph and NetworkNode it works on (lines 591-797).         *)
(*                                                                         *)
(* Numbers.  The program computes in IEEE doubles.  The model keeps every  *)
(* quantity exact:                                                         *)
(*   - widths and line lengths are integers;                               *)
(*   - stretch, shrink and penalty values are extended integers ("fin" v,  *)
(*     "pinf", "ninf", "nan"), with the IEEE rules for sums of infinities; *)
(*   - an adjustment ratio is a reduced fraction n/d or +Infinity;         *)
(*   - demerits are fractions (p - n)/d over arbitrary-size naturals       *)
(*     (sequences of base-10000 limbs), or +Infinity.                      *)
(***************************************************************************)
EXTENDS Integers, Sequences, FiniteSets, TLC

(***************************************************************************)
(* Bounds of the model.                                                    *)
(***************************************************************************)
\* longest item sequence, before the two closing items, that the inputs
\* enumerate exhaustively
MaxBody == 3
\* longest text Paragraph.build is given
MaxText == 5

(***************************************************************************)
(* Arbitrary-size naturals: little-endian sequences of limbs, no leading   *)
(* zero limb, <<>> = 0.                                                    *)
(***************************************************************************)
Base == 100 * 100

RECURSIVE BigOf(_)
BigOf(i) == IF i = 0 THEN <<>> ELSE <<i % Base>> \o BigOf(i \div Base)

RECURSIVE BigAddC(_, _, _)
BigAddC(x, y, c) ==
  IF x = <<>> /\ y = <<>>
  THEN (IF c = 0 THEN <<>> ELSE <<c>>)
  ELSE LET xh == IF x = <<>> THEN 0 ELSE Head(x)
           yh == IF y = <<>> THEN 0 ELSE Head(y)
           xt == IF x = <<>> THEN <<>> ELSE Tail(x)
           yt == IF y = <<>> THEN <<>> ELSE Tail(y)
           s  == xh + yh + c
       IN  <<s % Base>> \o BigAddC(xt, yt, s \div Base)

BigAdd(x, y) == IF x = <<>> THEN y ELSE IF y = <<>> THEN x ELSE BigAddC(x, y, 0)

RECURSIVE BigMulSmallC(_, _, _)
BigMulSmallC(x, k, c) ==
  IF x = <<>>
  THEN BigOf(c)
  ELSE LET s == Head(x) * k + c
       IN  <<s % Base>> \o BigMulSmallC(Tail(x), k, s \div Base)

\* x * k for a limb-sized k
BigMulSmall(x, k) == IF k = 0 THEN <<>> ELSE BigMulSmallC(x, k, 0)

BigShift(x) == IF x = <<>> THEN <<>> ELSE <<0>> \o x

RECURSIVE BigMul(_, _)
BigMul(x, y) ==
  IF x = <<>> \/ y = <<>> THEN <<>>
  ELSE IF y = <<1>> THEN x
  ELSE IF x = <<1>> THEN y
  ELSE BigAdd(BigMulSmall(x, Head(y)), BigShift(BigMul(x, Tail(y))))

RECURSIVE BigLessAt(_, _, _)
BigLessAt(x, y, i) ==
  IF i = 0 THEN FALSE
  ELSE IF x[i] # y[i] THEN x[i] < y[i]
  ELSE BigLessAt(x, y, i - 1)

BigLess(x, y) ==
  IF Len(x) # Len(y) THEN Len(x) < Len(y) ELSE BigLessAt(x, y, Len(x))

RECURSIVE BigPow(_, _)
BigPow(x, e) == IF e = 0 THEN <<1>> ELSE BigMul(x, BigPow(x, e - 1))

(***************************************************************************)
(* Extended integers: the values a double takes for stretch, shrink and    *)
(* penalty.  Infinity - Infinity is NaN, and every comparison with NaN is  *)
(* false.                                                                  *)
(***************************************************************************)
Fin(v)   == [k |-> "fin", v |-> v]
PInf     == [k |-> "pinf", v |-> 0]
NInf     == [k |-> "ninf", v |-> 0]
NaN      == [k |-> "nan", v |-> 0]

ExtNeg(x) ==
  CASE x.k = "fin"  -> Fin(0 - x.v)
    [] x.k = "pinf" -> NInf
    [] x.k = "ninf" -> PInf
    [] OTHER        -> NaN

ExtAdd(x, y) ==
  CASE x.k = "nan" \/ y.k = "nan"     -> NaN
    [] x.k = "fin" /\ y.k = "fin"     -> Fin(x.v + y.v)
    [] x.k = "fin"                    -> y
    [] y.k = "fin"                    -> x
    [] x.k = y.k                      -> x
    [] OTHER                          -> NaN

\* a subtraction in which Infinity - Infinity is Infinity
ExtSub_noNaN(x, y) == IF x = PInf /\ y = PInf THEN PInf ELSE ExtAdd(x, ExtNeg(y))

ExtSub(x, y) == ExtAdd(x, ExtNeg(y))

\* x > 0 as the program's  Y > 0  decides it
ExtPositive(x) == x.k = "pinf" \/ (x.k = "fin" /\ x.v > 0)

(***************************************************************************)
(* Adjustment ratios: a reduced fraction n/d with d > 0, +Infinity, or the *)
(* undefined of a node that never got one.                                 *)
(***************************************************************************)
RECURSIVE GCD(_, _)
GCD(x, y) == IF y = 0 THEN x ELSE GCD(y, x % y)

Abs(i) == IF i < 0 THEN 0 - i ELSE i

Ratio(n, d) ==
  LET g == GCD(Abs(n), d)
  IN  [k |-> "fin", n |-> n \div g, d |-> d \div g]

RInf   == [k |-> "pinf", n |-> 0, d |-> 1]
RUndef == [k |-> "undef", n |-> 0, d |-> 1]

\* x < y and x <= y as JavaScript decides them (false on undefined)
RLess(x, y) ==
  CASE x.k = "undef" \/ y.k = "undef" -> FALSE
    [] x.k = "pinf"                   -> FALSE
    [] y.k = "pinf"                   -> TRUE
    [] OTHER                          -> x.n * y.d < y.n * x.d

RLeq(x, y) ==
  CASE x.k = "undef" \/ y.k = "undef" -> FALSE
    [] y.k = "pinf"                   -> TRUE
    [] x.k = "pinf"                   -> FALSE
    [] OTHER                          -> x.n * y.d <= y.n * x.d

(***************************************************************************)
(* Demerits: (p - n)/d with p, n, d arbitrary-size naturals, d > 0; or     *)
(* +Infinity; or undefined (the unset local d of                           *)
(* chooseAppropriateActiveNode).                                           *)
(***************************************************************************)
Dem(p, n, d) == [k |-> "fin", p |-> p, n |-> n, d |-> d]
DInf         == [k |-> "pinf", p |-> <<>>, n |-> <<>>, d |-> <<1>>]
DUndef       == [k |-> "undef", p |-> <<>>, n |-> <<>>, d |-> <<1>>]
DemOfInt(i)  == IF i >= 0 THEN Dem(BigOf(i), <<>>, <<1>>) ELSE Dem(<<>>, BigOf(0 - i), <<1>>)

DemAdd(x, y) ==
  CASE x.k = "pinf" \/ y.k = "pinf" -> DInf
    [] x.d = y.d -> Dem(BigAdd(x.p, y.p), BigAdd(x.n, y.n), x.d)
    [] OTHER -> Dem(BigAdd(BigMul(x.p, y.d), BigMul(y.p, x.d)),
                    BigAdd(BigMul(x.n, y.d), BigMul(y.n, x.d)),
                    BigMul(x.d, y.d))

\* the two sides of x ? y brought to the common denominator x.d * y.d
DemLhs(x, y) == BigAdd(BigMul(x.p, y.d), BigMul(y.n, x.d))
DemRhs(x, y) == BigAdd(BigMul(y.p, x.d), BigMul(x.n, y.d))

DemLess(x, y) ==
  CASE x.k = "undef" \/ y.k = "undef" -> FALSE
    [] x.k = "pinf"                   -> FALSE
    [] y.k = "pinf"                   -> TRUE
    [] OTHER                          -> BigLess(DemLhs(x, y), DemRhs(x, y))

DemLeq(x, y) ==
  CASE x.k = "undef" \/ y.k = "undef" -> FALSE
    [] y.k = "pinf"                   -> TRUE
    [] x.k = "pinf"                   -> FALSE
    [] OTHER                          -> ~BigLess(DemRhs(x, y), DemLhs(x, y))

DemEq(x, y) == DemLeq(x, y) /\ DemLeq(y, x)

(***************************************************************************)
(* Items (classes Box, Glue, Penalty).  Every item carries penalty and     *)
(* flagged; the model gives boxes and penalties zero stretch and shrink,   *)
(* which the program never reads.                                          *)
(***************************************************************************)
Box(w) ==
  [type |-> "box", width |-> w, stretchability |-> Fin(0),
   shrinkability |-> Fin(0), penalty |-> Fin(0), flagged |-> 0]

Glue(w, y, z) ==
  [type |-> "glue", width |-> w, stretchability |-> y,
   shrinkability |-> z, penalty |-> Fin(0), flagged |-> 0]

Penalty(w, p, f) ==
  [type |-> "penalty", width |-> w, stretchability |-> Fin(0),
   shrinkability |-> Fin(0), penalty |-> p, flagged |-> f]

\* the two items Paragraph.build closes every paragraph with
FinishingGlue_rigid == Glue(0, Fin(0), Fin(0))
FinishingGlue   == Glue(0, PInf, Fin(0))
ForcingPenalty  == Penalty(0, NInf, 0)
\* the glue Paragraph.build puts between words
WordGlue        == Glue(1, Fin(1), Fin(1))

(***************************************************************************)
(* Nodes (class NetworkNode).  The heap is the sequence  nodes ; a node is *)
(* named by its index, and 0 is null.                                      *)
(***************************************************************************)
null == 0

NetworkNode(position, line, fitness, totalwidth, totalstretch, totalshrink, totaldemerits, previous, link, ratio) ==
  [position |-> position, line |-> line, fitness |-> fitness,
   totalwidth |-> totalwidth, totalstretch |-> totalstretch,
   totalshrink |-> totalshrink, totaldemerits |-> totaldemerits,
   previous |-> previous, link |-> link, ratio |-> ratio]

(***************************************************************************)
(* The state: the inputs of break() and the fields of Break, the locals of *)
(* break() and mainLoop(), and the value break() returns.                  *)
(***************************************************************************)
VARIABLES
  paragraph,     \* this.paragraph.body: the sequence of items (1-based here)
  lines_array,   \* this.lines_array
  q, roh, alpha, gamma,   \* the tuning fields
  nodes,         \* the heap of NetworkNode objects
  active_list,   \* this.active_list (a node, or null)
  passive_list,  \* this.passive_list
  sum_w, sum_y, sum_z,
  pc,            \* where break() is
  b,             \* break()'s loop index (0-based, as in the program)
  a, prev_a,     \* mainLoop's locals
  Ac, D, Dmax,
  chosen,        \* break()'s local: the terminal node picked at lines 872-877
  result,        \* what break() returned
  earlier        \* what the caller holds of the calls that have ended before

inputs == <<paragraph, lines_array, q, roh, alpha, gamma>>
heap   == <<nodes, active_list, passive_list>>
sums   == <<sum_w, sum_y, sum_z>>
locals == <<a, prev_a, Ac, D, Dmax>>
vars   == <<inputs, heap, sums, pc, b, locals, chosen, result, earlier>>

\* par[i] of the program, i counted from 0
par(i) == paragraph[i + 1]
m      == Len(paragraph)

(***************************************************************************)
(* Break.lines (lines 830-834).  An empty lines_array yields undefined.    *)
(***************************************************************************)
Undefined == [def |-> FALSE, v |-> 0]
Defined(v) == [def |-> TRUE, v |-> v]

\* lines() that counts the lines from 1: line 1 has the first length
lines_fromOne(i) ==
  LET n == Len(lines_array)
      at(k) == IF 0 <= k /\ k <= n - 1 THEN Defined(lines_array[k + 1]) ELSE Undefined
  IN  IF i - 1 > n - 1 THEN at(n - 1) ELSE at(i - 1)

lines(i) ==
  LET n == Len(lines_array)
      at(k) == IF 0 <= k /\ k <= n - 1 THEN Defined(lines_array[k + 1]) ELSE Undefined
  IN  IF i > n - 1 THEN at(n - 1) ELSE at(i)

(***************************************************************************)
(* Break.j0 (lines 966-974).  this.lines is the method, so this.lines.length*)
(* is the number of its declared parameters.                               *)
(***************************************************************************)
lines_length == 1

RECURSIVE j0Loop(_)
j0Loop(i) ==
  IF i > 0
  THEN IF lines(i) # lines(i - 1) THEN Fin(i - 1) ELSE j0Loop(i - 1)
  ELSE Fin(0)

j0 == IF q # 0 THEN PInf ELSE j0Loop(lines_length)

(***************************************************************************)
(* Break.computeAdjustmentRatio (lines 1029-1053): <<j, r>> for the line   *)
(* from node  an  to item  bb, given the running sums.                     *)
(***************************************************************************)
\* computeAdjustmentRatio without lines 1032-1033, the width of a penalty
adjustmentRatio_noPenaltyWidth(t, an, bb) ==
  LET L  == t[1] - an.totalwidth
      j  == an.line + 1
      lj == lines(j)
      Y  == ExtSub(t[2], an.totalstretch)
      Z  == ExtSub(t[3], an.totalshrink)
      quot(x) == IF x.k = "pinf" THEN Ratio(0, 1) ELSE Ratio(lj.v - L, x.v)
      r  == IF lj.def /\ L < lj.v
            THEN (IF ExtPositive(Y) THEN quot(Y) ELSE RInf)
            ELSE IF lj.def /\ L > lj.v
            THEN (IF ExtPositive(Z) THEN quot(Z) ELSE RInf)
            ELSE Ratio(0, 1)
  IN  <<j, r>>

\* the body of computeAdjustmentRatio, the running sums  t = <<w, y, z>>  given
adjustmentRatio(t, an, bb) ==
  LET L0 == t[1] - an.totalwidth
      L  == IF par(bb).type = "penalty" THEN L0 + par(bb).width ELSE L0
      j  == an.line + 1
      lj == lines(j)
      Y  == ExtSub(t[2], an.totalstretch)
      Z  == ExtSub(t[3], an.totalshrink)
      quot(x) == IF x.k = "pinf" THEN Ratio(0, 1) ELSE Ratio(lj.v - L, x.v)
      r  == IF lj.def /\ L < lj.v
            THEN (IF ExtPositive(Y) THEN quot(Y) ELSE RInf)
            ELSE IF lj.def /\ L > lj.v
            THEN (IF ExtPositive(Z) THEN quot(Z) ELSE RInf)
            ELSE Ratio(0, 1)
  IN  <<j, r>>

computeAdjustmentRatio(an, bb) == adjustmentRatio(<<sum_w, sum_y, sum_z>>, an, bb)

(***************************************************************************)
(* Break.computeDemeritsAndFitnessClass (lines 1072-1096): <<d, c>>.       *)
(***************************************************************************)
\* r < -0.5 -> 0, r <= 0.5 -> 1, r <= 1 -> 2, else 3   (lines 1082-1090)
fitnessClass(r) ==
  IF RLess(r, Ratio(-1, 2)) THEN 0
  ELSE IF RLeq(r, Ratio(1, 2)) THEN 1
  ELSE IF RLeq(r, Ratio(1, 1)) THEN 2
  ELSE 3

\* (1 + 100 |r|^3 + extra)^2 for a finite r = n/d:  A^2 / d^6  with
\* A = d^3 (1 + extra) + 100 |n|^3
badnessSquared(r, extra) ==
  LET n3 == Abs(r.n) * Abs(r.n) * Abs(r.n)
      d3 == r.d * r.d * r.d
      A  == BigAdd(BigOf(d3 * (1 + extra)), BigMulSmall(BigOf(n3), 100))
      d6 == BigMul(BigOf(d3), BigOf(d3))
  IN  Dem(BigMul(A, A), <<>>, d6)

\* computeDemeritsAndFitnessClass with line 1079 for every negative penalty:
\* the square of the penalty is not subtracted
computeDemeritsAndFitnessClass_noReward(an, bb, r) ==
  LET bp == par(bb).penalty
      d1 == IF r.k = "pinf" \/ bp.k = "pinf" THEN DInf
            ELSE IF bp.k = "fin" /\ bp.v >= 0 THEN badnessSquared(r, bp.v)
            ELSE badnessSquared(r, 0)
      d2 == DemAdd(d1, DemOfInt(alpha * par(bb).flagged * par(an.position).flagged))
      c  == fitnessClass(r)
      d3 == IF Abs(c - an.fitness) > 1 THEN DemAdd(d2, DemOfInt(gamma)) ELSE d2
      d  == DemAdd(d3, an.totaldemerits)
  IN  <<d, c>>

computeDemeritsAndFitnessClass(an, bb, r) ==
  LET bp == par(bb).penalty
      d1 == IF r.k = "pinf" THEN DInf
            ELSE IF bp.k = "pinf" \/ (bp.k = "fin" /\ bp.v >= 0)
            THEN (IF bp.k = "pinf" THEN DInf ELSE badnessSquared(r, bp.v))
            ELSE IF bp.k # "ninf"
            THEN DemAdd(badnessSquared(r, 0), DemOfInt(0 - bp.v * bp.v))
            ELSE badnessSquared(r, 0)
      d2 == DemAdd(d1, DemOfInt(alpha * par(bb).flagged * par(an.position).flagged))
      c  == fitnessClass(r)
      d3 == IF Abs(c - an.fitness) > 1 THEN DemAdd(d2, DemOfInt(gamma)) ELSE d2
      d  == DemAdd(d3, an.totaldemerits)
  IN  <<d, c>>

(***************************************************************************)
(* Break.computeTotalWidthStretchShrink (lines 1098-1114).                 *)
(***************************************************************************)
\* the sums of break() as they are, without the items that follow the break
sumAfter_running(i, bb, t) == t

RECURSIVE sumAfter(_, _, _)
sumAfter(i, bb, t) ==
  IF ~(i < m) THEN t
  ELSE IF par(i).type = "box" THEN t
  ELSE IF par(i).type = "glue"
  THEN sumAfter(i + 1, bb,
                <<t[1] + par(i).width,
                  ExtAdd(t[2], par(i).stretchability),
                  ExtAdd(t[3], par(i).shrinkability)>>)
  ELSE IF par(i).penalty = NInf /\ i > bb THEN t
  ELSE sumAfter(i + 1, bb, t)

computeTotalWidthStretchShrink(bb) == sumAfter(bb, bb, <<sum_w, sum_y, sum_z>>)

(***************************************************************************)
(* Break.deactivateNode (lines 1055-1070): the heap after the call and the *)
(* ratio it returns.                                                       *)
(***************************************************************************)
\* deactivateNode without its "handle overfull box" branch
deactivateNode_noRecovery(an, prev, next, dmax, r) ==
  LET al1    == IF prev = null THEN next ELSE active_list
      nodes1 == IF prev = null THEN nodes ELSE [nodes EXCEPT ![prev].link = next]
  IN  [nodes |-> [nodes1 EXCEPT ![an].link = passive_list],
       active_list |-> al1, passive_list |-> an, r |-> r]

\* deactivateNode whose "handle overfull box" branch returns 0 for -1
deactivateNode_zeroRatio(an, prev, next, dmax, r) ==
  LET al1    == IF prev = null THEN next ELSE active_list
      nodes1 == IF prev = null THEN nodes ELSE [nodes EXCEPT ![prev].link = next]
  IN  IF al1 = null /\ dmax.k = "pinf" /\ RLess(r, Ratio(-1, 1))
      THEN [nodes |-> nodes1, active_list |-> an,
            passive_list |-> passive_list, r |-> Ratio(0, 1)]
      ELSE [nodes |-> [nodes1 EXCEPT ![an].link = passive_list],
            active_list |-> al1, passive_list |-> an, r |-> r]

deactivateNode(an, prev, next, dmax, r) ==
  LET al1    == IF prev = null THEN next ELSE active_list
      nodes1 == IF prev = null THEN nodes ELSE [nodes EXCEPT ![prev].link = next]
  IN  IF al1 = null /\ dmax.k = "pinf" /\ RLess(r, Ratio(-1, 1))
      THEN \* handle overfull box
           [nodes |-> nodes1, active_list |-> an,
            passive_list |-> passive_list, r |-> Ratio(-1, 1)]
      ELSE [nodes |-> [nodes1 EXCEPT ![an].link = passive_list],
            active_list |-> al1, passive_list |-> an, r |-> r]

(***************************************************************************)
(* Break.insertNewActiveNodesForBreaks (lines 1116-1132).  prev is the     *)
(* function's own copy of mainLoop's prev_a.                               *)
(***************************************************************************)
\* the node of line 1123 with Ac[c].line for Ac[c].line + 1
newActiveNode_sameLine(c, an, bb, dd, ac, t, ns) ==
  NetworkNode(bb, ns[ac[c]].line, c, t[1], t[2], t[3],
              dd[c], ac[c], an, ns[ac[c]].ratio)

\* line 1123: the node for a break at bb after Ac[c], of class c
newActiveNode(c, an, bb, dd, ac, t, ns) ==
  NetworkNode(bb, ns[ac[c]].line + 1, c, t[1], t[2], t[3],
              dd[c], ac[c], an, ns[ac[c]].ratio)

\* the loop of lines 1121-1131 with the test  D[c] <= Dmax  for line 1122
RECURSIVE insertLoop_noGamma(_, _, _, _, _, _, _, _)
insertLoop_noGamma(c, an, bb, dd, dmax, ac, t, st) ==
  IF ~(c < 4) THEN st
  ELSE IF DemLeq(dd[c], dmax)
  THEN LET s  == newActiveNode(c, an, bb, dd, ac, t, st.nodes)
           id == Len(st.nodes) + 1
           n1 == Append(st.nodes, s)
       IN  insertLoop_noGamma(c + 1, an, bb, dd, dmax, ac, t,
             [nodes       |-> IF st.prev = null THEN n1
                              ELSE [n1 EXCEPT ![st.prev].link = id],
              active_list |-> IF st.prev = null THEN id ELSE st.active_list,
              prev        |-> id])
  ELSE insertLoop_noGamma(c + 1, an, bb, dd, dmax, ac, t, st)

RECURSIVE insertLoop(_, _, _, _, _, _, _, _)
insertLoop(c, an, bb, dd, dmax, ac, t, st) ==
  IF ~(c < 4) THEN st
  ELSE IF DemLeq(dd[c], DemAdd(dmax, DemOfInt(gamma)))
  THEN LET s  == newActiveNode(c, an, bb, dd, ac, t, st.nodes)
           id == Len(st.nodes) + 1
           n1 == Append(st.nodes, s)
       IN  insertLoop(c + 1, an, bb, dd, dmax, ac, t,
             [nodes       |-> IF st.prev = null THEN n1
                              ELSE [n1 EXCEPT ![st.prev].link = id],
              active_list |-> IF st.prev = null THEN id ELSE st.active_list,
              prev        |-> id])
  ELSE insertLoop(c + 1, an, bb, dd, dmax, ac, t, st)

insertNewActiveNodesForBreaks(an, bb, dd, dmax, ac, prev) ==
  insertLoop(0, an, bb, dd, dmax, ac, computeTotalWidthStretchShrink(bb),
             [nodes |-> nodes, active_list |-> active_list, prev |-> prev])

(***************************************************************************)
(* Break.chooseNodeFewestDemerits (lines 1134-1147).                       *)
(***************************************************************************)
RECURSIVE fewestLoop(_, _, _)
fewestLoop(an, best, d) ==
  LET nx == nodes[an].link
  IN  IF nx = null THEN best
      ELSE IF DemLess(nodes[nx].totaldemerits, d)
      THEN fewestLoop(nx, nx, nodes[nx].totaldemerits)
      ELSE fewestLoop(nx, best, d)

\* the head of the active list, whatever its demerits
chooseNodeFewestDemerits_head == active_list

chooseNodeFewestDemerits ==
  fewestLoop(active_list, active_list, nodes[active_list].totaldemerits)

(***************************************************************************)
(* Break.chooseAppropriateActiveNode (lines 1149-1166).                    *)
(***************************************************************************)
RECURSIVE appropriateLoop(_, _, _, _, _)
appropriateLoop(an, k, s, d, best) ==
  LET delta == nodes[an].line - k
      take  == (q <= delta /\ delta < s) \/ (s < delta /\ delta <= q)
      tie   == ~take /\ delta = s /\ DemLess(nodes[an].totaldemerits, d)
      s1    == IF take THEN delta ELSE s
      d1    == IF take \/ tie THEN nodes[an].totaldemerits ELSE d
      b1    == IF take \/ tie THEN an ELSE best
  IN  IF nodes[an].link = null THEN b1
      ELSE appropriateLoop(nodes[an].link, k, s1, d1, b1)

\* chooseAppropriateActiveNode that keeps the node of fewest demerits
chooseAppropriateActiveNode_ignoresQ(k, best) == best

chooseAppropriateActiveNode(k, best) ==
  appropriateLoop(active_list, k, 0, DUndef, best)

(***************************************************************************)
(* break(): the item is a legal breakpoint (lines 852-853, 862).           *)
(***************************************************************************)
\* the test of lines 852-853 without "the item before is a box"
runsMainLoop_anyGlue(i) ==
  \/ par(i).type = "glue"
  \/ par(i).type = "penalty" /\ par(i).penalty # PInf

runsMainLoop(i) ==
  \/ par(i).type = "glue" /\ i > 0 /\ par(i - 1).type = "box"
  \/ par(i).type = "penalty" /\ par(i).penalty # PInf

NoNodes == [c \in 0..3 |-> null]
NoDemerits == [c \in 0..3 |-> DInf]
NoResult == [breakpoints |-> <<>>, ratios |-> <<>>]

(***************************************************************************)
(* The constructor (lines 822-828) and the caller's assignments to the     *)
(* public fields q, roh, alpha, gamma (Break has no setter).               *)
(***************************************************************************)
DefaultRoh_Infinity == RInf
DefaultRoh == Ratio(5, 1)

Tuning == [q |-> q, roh |-> roh, alpha |-> alpha, gamma |-> gamma]

\* the caller assigns a tuning of T before a call
configure(T) ==
  /\ pc \in {"new", "idle"}
  /\ \E t \in T :
        q' = t.q /\ roh' = t.roh /\ alpha' = t.alpha /\ gamma' = t.gamma
  /\ pc' = "idle"
  /\ UNCHANGED <<earlier, paragraph, lines_array, heap, sums, b, locals, chosen, result>>

(***************************************************************************)
(* break(), lines 838-848: the arguments, the start node and the zeroed    *)
(* sums.  The arguments are drawn from the inputs of I that carry the      *)
(* tuning the instance has.                                                *)
(***************************************************************************)
startSums_kept == <<sum_w, sum_y, sum_z>>
startSums == <<0, Fin(0), Fin(0)>>

breakCalled(I) ==
  /\ pc \in {"new", "idle"}
  /\ \E i \in I :
        /\ Tuning = [q |-> i.q, roh |-> i.roh, alpha |-> i.alpha, gamma |-> i.gamma]
        /\ paragraph' = i.paragraph
        /\ lines_array' = i.lines_array
  /\ nodes' = <<NetworkNode(0, 0, 1, 0, Fin(0), Fin(0), DemOfInt(0), null, null, RUndef)>>
  /\ active_list' = 1
  /\ passive_list' = null
  /\ sum_w' = startSums[1] /\ sum_y' = startSums[2] /\ sum_z' = startSums[3]
  /\ b' = 0
  /\ pc' = "scan"
  /\ UNCHANGED <<earlier, q, roh, alpha, gamma, locals, chosen, result>>

\* lines 850-851
ScanBox ==
  /\ pc = "scan" /\ b < m /\ par(b).type = "box"
  /\ sum_w' = sum_w + par(b).width
  /\ b' = b + 1
  /\ UNCHANGED <<earlier, inputs, heap, sum_y, sum_z, pc, locals, chosen, result>>

\* lines 859-861 without the stretch and the shrink
addGlue_widthOnly ==
  /\ sum_w' = sum_w + par(b).width
  /\ UNCHANGED <<sum_y, sum_z>>

\* lines 859-861
addGlue ==
  /\ sum_w' = sum_w + par(b).width
  /\ sum_y' = ExtAdd(sum_y, par(b).stretchability)
  /\ sum_z' = ExtAdd(sum_z, par(b).shrinkability)

\* lines 852-861, a glue that does not follow a box
ScanGlue ==
  /\ pc = "scan" /\ b < m /\ par(b).type = "glue" /\ ~runsMainLoop(b)
  /\ addGlue
  /\ b' = b + 1
  /\ UNCHANGED <<earlier, inputs, heap, pc, locals, chosen, result>>

\* line 862, a penalty of +Infinity
ScanForbidden ==
  /\ pc = "scan" /\ b < m /\ par(b).type = "penalty" /\ ~runsMainLoop(b)
  /\ b' = b + 1
  /\ UNCHANGED <<earlier, inputs, heap, sums, pc, locals, chosen, result>>

\* mainLoop, lines 907-914: entry at a legal breakpoint
MainLoopCall ==
  /\ pc = "scan" /\ b < m /\ runsMainLoop(b) /\ active_list # null
  /\ a' = active_list
  /\ prev_a' = null
  /\ Ac' = NoNodes
  /\ D' = NoDemerits
  /\ Dmax' = DInf
  /\ pc' = "inner"
  /\ UNCHANGED <<earlier, inputs, heap, sums, b, chosen, result>>

\* the test of line 930 without its lower bound
feasible_noLowerBound(r) == RLeq(r, roh)

\* line 930: -1 <= r && r <= this.roh
feasible(r) == RLeq(Ratio(-1, 1), r) /\ RLeq(r, roh)

\* mainLoop, lines 917-948: one turn of the inner loop, on node a
InnerStep ==
  /\ pc = "inner"
  /\ LET next_a == nodes[a].link
         jr     == computeAdjustmentRatio(nodes[a], b)
         j      == jr[1]
         deact  == RLess(jr[2], Ratio(-1, 1)) \/ par(b).penalty = NInf
         de     == deactivateNode(a, prev_a, next_a, Dmax, jr[2])
         r      == IF deact THEN de.r ELSE jr[2]
         nodes1 == IF deact THEN de.nodes ELSE nodes
         feas   == feasible(r)
         dc     == computeDemeritsAndFitnessClass(nodes[a], b, r)
         better == feas /\ DemLess(dc[1], D[dc[2]])
         exit   == IF next_a = null THEN TRUE
                   ELSE nodes[next_a].line >= j
                        /\ (j0.k = "pinf" \/ j < j0.v)
     IN  /\ nodes' = IF better THEN [nodes1 EXCEPT ![a].ratio = r] ELSE nodes1
         /\ active_list' = IF deact THEN de.active_list ELSE active_list
         /\ passive_list' = IF deact THEN de.passive_list ELSE passive_list
         /\ prev_a' = IF deact THEN prev_a ELSE a
         /\ D' = IF better THEN [D EXCEPT ![dc[2]] = dc[1]] ELSE D
         /\ Ac' = IF better THEN [Ac EXCEPT ![dc[2]] = a] ELSE Ac
         /\ Dmax' = IF better /\ DemLess(dc[1], Dmax) THEN dc[1] ELSE Dmax
         /\ a' = next_a
         /\ pc' = IF exit THEN "insert" ELSE "inner"
  /\ UNCHANGED <<earlier, inputs, sums, b, chosen, result>>

\* mainLoop, lines 950-963, and the return into break() (lines 859-861 for
\* a glue, then b++)
AfterInner ==
  /\ pc = "insert"
  /\ LET ins == IF DemLess(Dmax, DInf)
                THEN insertNewActiveNodesForBreaks(a, b, D, Dmax, Ac, prev_a)
                ELSE [nodes |-> nodes, active_list |-> active_list, prev |-> prev_a]
     IN  /\ nodes' = ins.nodes
         /\ active_list' = ins.active_list
  /\ IF a = null
     THEN /\ IF par(b).type = "glue" THEN addGlue ELSE UNCHANGED sums
          /\ b' = b + 1
          /\ pc' = "scan"
          /\ a' = null /\ prev_a' = null /\ Ac' = NoNodes
          /\ D' = NoDemerits /\ Dmax' = DInf
     ELSE /\ D' = NoDemerits
          /\ Dmax' = DInf
          /\ pc' = "inner"
          /\ UNCHANGED <<sums, b, a, prev_a, Ac>>
  /\ UNCHANGED <<earlier, inputs, passive_list, chosen, result>>

(***************************************************************************)
(* break(), lines 870-903: the terminal node and the walk back along       *)
(* previous.                                                               *)
(***************************************************************************)
RECURSIVE hops(_, _)
\* the node  h  previous-steps before node n (null once the chain ends)
hops(n, h) == IF h = 0 \/ n = null THEN n ELSE hops(nodes[n].previous, h - 1)

\* lines 870-879
Choose ==
  /\ pc = "scan" /\ b = m /\ active_list # null
  /\ LET c0 == chooseNodeFewestDemerits
     IN  chosen' = IF q # 0 THEN chooseAppropriateActiveNode(nodes[c0].line, c0)
                   ELSE c0
  /\ pc' = "walk"
  /\ UNCHANGED <<earlier, inputs, heap, sums, b, locals, result>>

\* lines 882-903; reading chosen.position of a null chosen is a TypeError
Walk ==
  /\ pc = "walk"
  /\ LET linenumber == nodes[chosen].line
         at(j) == hops(chosen, linenumber - j)
     IN  IF \E j \in 0..linenumber : at(j) = null
         THEN pc' = "threw" /\ UNCHANGED result
         ELSE /\ pc' = "done"
              /\ result' =
                   [breakpoints |-> [j \in 0..linenumber |-> nodes[at(j)].position],
                    ratios |-> [j \in 0..linenumber |->
                                  IF nodes[at(j)].previous = null THEN RUndef
                                  ELSE nodes[nodes[at(j)].previous].ratio]]
  /\ UNCHANGED <<earlier, inputs, heap, sums, b, locals, chosen>>

\* a TypeError: mainLoop reads a.link (line 917), or chooseNodeFewestDemerits
\* reads a.totaldemerits (line 1136), with this.active_list null
Throw ==
  /\ pc = "scan" /\ active_list = null
  /\ IF b = m THEN TRUE ELSE runsMainLoop(b)
  /\ pc' = "threw"
  /\ UNCHANGED <<earlier, inputs, heap, sums, b, locals, chosen, result>>

(***************************************************************************)
(* Inputs.  Break has no setter: a caller assigns the public fields q, roh,*)
(* alpha, gamma after construction and passes paragraph and lines_array to *)
(* break().  These families of inputs are drawn:                           *)
(*   - every paragraph of at most MaxBody items over Items, closed as      *)
(*     Paragraph.build closes it;                                          *)
(*   - the same item sequences left unclosed, and an empty lines_array     *)
(*     (break() validates nothing);                                        *)
(*   - the scenario paragraphs, under every tuning of Tunings;             *)
(*   - what Paragraph.build makes of every text of at most MaxText         *)
(*     characters, on one line at least as long as the text;               *)
(*   - two paragraphs under a large gamma.                                 *)
(***************************************************************************)
RECURSIVE SeqsUpTo(_, _)
SeqsUpTo(S, n) ==
  IF n = 0 THEN {<<>>}
  ELSE LET shorter == SeqsUpTo(S, n - 1)
       IN  shorter \cup {Append(x, e) : x \in {y \in shorter : Len(y) = n - 1}, e \in S}

Hyphen == Penalty(1, Fin(50), 1)
\* a flagged penalty of negative value
Bonus == Penalty(1, Fin(-10), 1)

Items ==
  {Box(2), Box(3), WordGlue, Hyphen, Penalty(0, PInf, 0), ForcingPenalty}

Closed(body) == body \o <<FinishingGlue, ForcingPenalty>>

(***************************************************************************)
(* Paragraph.build (lines 690-733): a box per run of non-space characters, *)
(* of width the number of characters; Glue(1,1,1) per space; the two       *)
(* closing items.                                                          *)
(***************************************************************************)
RECURSIVE wordEnd(_, _)
\* the inner loop of lines 721-722: the index past the word that starts at i
wordEnd(text, i) ==
  IF i <= Len(text) /\ text[i] # " " THEN wordEnd(text, i + 1) ELSE i

RECURSIVE buildFrom(_, _)
buildFrom(text, i) ==
  IF i > Len(text) THEN <<>>
  ELSE IF text[i] # " "
  THEN <<Box(wordEnd(text, i) - i)>> \o buildFrom(text, wordEnd(text, i))
  ELSE <<WordGlue>> \o buildFrom(text, i + 1)

build(text) == buildFrom(text, 1) \o <<FinishingGlue, ForcingPenalty>>

RECURSIVE widthFrom(_, _)
widthFrom(p, i) == IF i > Len(p) THEN 0 ELSE p[i].width + widthFrom(p, i + 1)

\* the total natural width of the items of p
naturalWidth(p) == widthFrom(p, 1)

\* the texts given to build, and how much longer than the text the single
\* line is
Texts == SeqsUpTo({"a", " "}, MaxText)
Slacks == {0, 1, 5}

\* boxes of the given widths, with the build() glue between them
RECURSIVE Words(_)
Words(ws) ==
  IF Len(ws) = 0 THEN <<>>
  ELSE IF Len(ws) = 1 THEN <<Box(ws[1])>>
  ELSE <<Box(ws[1]), WordGlue>> \o Words(Tail(ws))

ScenarioInputs ==
  { \* "foo bar" on one line, and on two
    <<Closed(Words(<<3, 3>>)), <<10>>>>,
    <<Closed(Words(<<3, 3>>)), <<3>>>>,
    \* "super-power"
    <<Closed(<<Box(5), Hyphen, Box(5)>>), <<6>>>>,
    \* a break at a glue and a break at a hyphen
    <<Closed(<<Box(3), WordGlue, Box(2), Hyphen, Box(2)>>), <<3>>>>,
    \* a word wider than the line
    <<Closed(<<Box(20)>>), <<5>>>>,
    \* a first line that cannot shrink enough, then a line that fits
    <<Closed(Words(<<3, 3, 2>>)), <<5>>>>,
    \* a hyphenation point the start node reaches, and the paragraph end
    <<Closed(<<Box(2), WordGlue, Box(2), Hyphen, Box(2)>>), <<6>>>>,
    \* line lengths that differ from line to line
    <<Closed(Words(<<1, 1, 2, 1, 1>>)), <<4, 4, 2, 3>>>>,
    \* a hyphen whose width makes the line to it longer than the line past it
    <<Closed(<<Box(2), WordGlue, Hyphen, Box(3), Hyphen>>), <<5>>>>,
    \* a paragraph that starts with a legal penalty break
    <<Closed(<<Hyphen, Box(2), WordGlue, Box(2)>>), <<9, 1, 5>>>>,
    \* no closing items: breaks of one, two and no lines stay active to the end
    <<<<Box(2), Hyphen, Box(2), Hyphen>>, <<3>>>>,
    \* three short words: one line is the optimum, two lines are feasible
    <<Closed(Words(<<1, 1, 1>>)), <<4>>>>,
    \* line lengths that still change after line 1
    <<Closed(Words(<<3, 3, 3>>)), <<10, 10, 5>>>>,
    \* a break that is rewarded, between two flagged breaks
    <<Closed(<<Box(2), Hyphen, Box(2), Bonus, Box(2), Hyphen, Box(2)>>), <<3>>>> }

Tunings ==
  [q : {-1, 0, 1, 2}, roh : {Ratio(1, 1), DefaultRoh, RInf},
   alpha : {0, 3000}, gamma : {0, 200}]

\* a fitness-change penalty above the demerits of any sequence of the
\* paragraph it is used with
FitnessTuning == [q |-> 0, roh |-> DefaultRoh, alpha |-> 0, gamma |-> 100000]

\* five words between glues of different stretch and shrink: two sequences of
\* three lines have the same demerits, one of them goes from a loose line to
\* a tight one
FitnessScenario ==
  <<Closed(<<Box(4), Glue(1, Fin(2), Fin(2)), Box(1), WordGlue, Box(1), WordGlue,
             Box(3), Glue(1, Fin(2), Fin(1)), Box(1)>>), <<4>>>>

\* five one-letter words, a hyphen after the second and after the fourth:
\* under the large gamma, breaks of one line and of two lines stay active
TwoHyphensScenario ==
  <<Closed(<<Box(1), WordGlue, Box(1), Hyphen, Box(1), WordGlue, Box(1), Hyphen,
             Box(1)>>), <<5>>>>

Input(p, l, t) ==
  [paragraph |-> p, lines_array |-> l, q |-> t.q, roh |-> t.roh,
   alpha |-> t.alpha, gamma |-> t.gamma]

Default(qq) == [q |-> qq, roh |-> DefaultRoh, alpha |-> 0, gamma |-> 0]

Inputs ==
  {Input(Closed(x), l, Default(qq)) :
      x \in SeqsUpTo(Items, MaxBody), l \in {<<5>>, <<9, 6, 3>>}, qq \in {0, 1}}
  \cup
  {Input(x, l, Default(0)) :
      x \in SeqsUpTo(Items, MaxBody), l \in {<<5>>, <<>>}}
  \cup
  {Input(s[1], s[2], t) : s \in ScenarioInputs, t \in Tunings}
  \cup
  {Input(build(x), <<naturalWidth(build(x)) + s>>, Default(0)) :
      x \in Texts, s \in Slacks}
  \cup
  {Input(FitnessScenario[1], FitnessScenario[2], t) : t \in {Default(0), FitnessTuning}}
  \cup
  {Input(TwoHyphensScenario[1], TwoHyphensScenario[2], FitnessTuning)}

\* the state after  new Break()  (lines 822-828): the four defaults; the
\* other fields are not assigned yet
Init ==
  /\ q = 0 /\ roh = DefaultRoh /\ alpha = 0 /\ gamma = 0
  /\ paragraph = <<>>
  /\ lines_array = <<>>
  /\ nodes = <<>>
  /\ active_list = null
  /\ passive_list = null
  /\ sum_w = 0 /\ sum_y = Fin(0) /\ sum_z = Fin(0)
  /\ pc = "new"
  /\ b = 0
  /\ a = null /\ prev_a = null /\ Ac = NoNodes /\ D = NoDemerits /\ Dmax = DInf
  /\ chosen = null
  /\ result = NoResult
  /\ earlier = <<>>

Configure == configure(Tunings \cup {FitnessTuning})

BreakStart == breakCalled(Inputs)

Next ==
  \/ Configure
  \/ BreakStart
  \/ ScanBox
  \/ ScanGlue
  \/ ScanForbidden
  \/ MainLoopCall
  \/ InnerStep
  \/ AfterInner
  \/ Choose
  \/ Walk
  \/ Throw

Spec == Init /\ [][Next]_vars

(***************************************************************************)
(* Reuse.  break() returns or throws; the caller keeps what it got and     *)
(* calls break() again on the same instance, after assigning the tuning    *)
(* fields if it wishes.  The fields of the instance stay as the call left  *)
(* them; the locals of the call are gone.                                  *)
(***************************************************************************)
MaxCalls == 3

\* what the caller holds of the call that has just ended
outcome ==
  [paragraph |-> paragraph, lines_array |-> lines_array,
   q |-> q, roh |-> roh, alpha |-> alpha, gamma |-> gamma,
   pc |-> pc, result |-> result,
   totaldemerits |-> IF pc = "done" THEN nodes[chosen].totaldemerits ELSE DUndef]

Reuse ==
  /\ pc \in {"done", "threw"}
  /\ Len(earlier) < MaxCalls - 1
  /\ earlier' = Append(earlier, outcome)
  /\ pc' = "idle"
  /\ b' = 0
  /\ a' = null /\ prev_a' = null /\ Ac' = NoNodes /\ D' = NoDemerits /\ Dmax' = DInf
  /\ chosen' = null
  /\ result' = NoResult
  /\ UNCHANGED <<inputs, heap, sums>>

ReuseScenarios ==
  { \* line lengths that differ from line to line
    <<Closed(Words(<<1, 1, 2, 1, 1>>)), <<4, 4, 2, 3>>>>,
    \* a hyphen before the last word
    <<Closed(<<Box(1), WordGlue, Box(1), WordGlue, Box(3), Hyphen, Box(1)>>), <<5>>>>,
    \* a word wider than the line
    <<Closed(<<Box(20)>>), <<5>>>>,
    \* a forbidden break and a glue that is no breakpoint
    <<Closed(<<Box(2), Penalty(0, PInf, 0), WordGlue, Box(2)>>), <<5>>>> }

ReuseTunings ==
  [q : {0}, roh : {Ratio(1, 1), DefaultRoh}, alpha : {0}, gamma : {0, 200}]

ReuseInputs ==
  {Input(s[1], s[2], t) : s \in ReuseScenarios, t \in ReuseTunings}

Reconfigure == configure(ReuseTunings)

BreakAgain == breakCalled(ReuseInputs)

NextReuse ==
  \/ Reconfigure
  \/ BreakAgain
  \/ Reuse
  \/ ScanBox
  \/ ScanGlue
  \/ ScanForbidden
  \/ MainLoopCall
  \/ InnerStep
  \/ AfterInner
  \/ Choose
  \/ Walk
  \/ Throw

SpecReuse == Init /\ [][NextReuse]_vars

(***************************************************************************)
(* The notions the properties below are stated with.                       *)
(***************************************************************************)
\* the paragraph ends as Paragraph.build ends it (lines 731-732)
WellFormed ==
  m >= 2 /\ par(m - 1) = ForcingPenalty /\ par(m - 2) = FinishingGlue

PositiveLines ==
  Len(lines_array) > 0 /\ \A i \in 1..Len(lines_array) : lines_array[i] > 0

\* the boundary rule: a glue right after a box, or a penalty below +Infinity
Legal(i) ==
  /\ i \in 0..(m - 1)
  /\ IF par(i).type = "glue" THEN i > 0 /\ par(i - 1).type = "box"
     ELSE par(i).type = "penalty" /\ par(i).penalty # PInf

Forced(i) == par(i).type = "penalty" /\ par(i).penalty = NInf

\* the sums of break() when its loop reaches item i (lines 850-861)
RECURSIVE sumsBefore(_)
sumsBefore(i) ==
  IF i = 0 THEN <<0, Fin(0), Fin(0)>>
  ELSE LET t == sumsBefore(i - 1)
           x == par(i - 1)
       IN  IF x.type = "box" THEN <<t[1] + x.width, t[2], t[3]>>
           ELSE IF x.type = "glue"
           THEN <<t[1] + x.width, ExtAdd(t[2], x.stretchability),
                  ExtAdd(t[3], x.shrinkability)>>
           ELSE t

\* the start node of line 842
startNode ==
  NetworkNode(0, 0, 1, 0, Fin(0), Fin(0), DemOfInt(0), null, null, RUndef)

\* the adjustment ratio of the line from the break of node n to item bb
lineRatio(n, bb) == adjustmentRatio(sumsBefore(bb), n, bb)[2]

feasibleLine(n, bb) ==
  RLeq(Ratio(-1, 1), lineRatio(n, bb)) /\ RLeq(lineRatio(n, bb), roh)

\* the node of a break at bb whose line starts at the break of node n: the
\* totals of line 1119, the demerits and class of lines 1072-1096
lineEnd(n, bb) ==
  LET r  == lineRatio(n, bb)
      dc == computeDemeritsAndFitnessClass(n, bb, r)
      t  == sumAfter(bb, bb, sumsBefore(bb))
  IN  NetworkNode(bb, n.line + 1, dc[2], t[1], t[2], t[3], dc[1], null, null, r)

MinDem(S) == CHOOSE x \in S : \A y \in S : DemLeq(x, y)

\* the fewest total demerits of a sequence of legal breaks that continues
\* node n with breaks at items >= from, takes every forced break, ends at
\* item m - 1 and has every ratio in [-1, roh]; DInf when there is none
RECURSIVE optimum(_, _)
optimum(n, from) ==
  IF from >= m THEN n.totaldemerits
  ELSE LET forced == {i \in from..(m - 1) : Forced(i)}
           stop   == IF forced = {} THEN m - 1
                     ELSE CHOOSE i \in forced : \A k \in forced : i <= k
           cands  == {bb \in from..stop : Legal(bb) /\ feasibleLine(n, bb)}
       IN  MinDem({optimum(lineEnd(n, bb), bb + 1) : bb \in cands} \cup {DInf})

\* the result of break()
LastLine == Cardinality(DOMAIN result.breakpoints) - 1
breakpoints(k) == result.breakpoints[k]
ratios(k) == result.ratios[k]

\* the node the first k lines of the result lead to
RECURSIVE walked(_)
walked(k) ==
  IF k = 0 THEN startNode ELSE lineEnd(walked(k - 1), breakpoints(k))

\* the adjustment ratio of line k of the result, from its two breakpoints
TrueRatio(k) == lineRatio(walked(k - 1), breakpoints(k))

\* the nodes on the active list
RECURSIVE linked(_)
linked(n) == IF n = null THEN {} ELSE {n} \cup linked(nodes[n].link)
ActiveNodes == linked(active_list)

\* the tuning the constructor sets (lines 822-828)
DefaultTuning == q = 0 /\ roh = Ratio(5, 1) /\ alpha = 0 /\ gamma = 0

(***************************************************************************)
(* C1.  For a well-formed paragraph and a non-empty schedule of positive   *)
(* line lengths break() returns a result and never fails: the active list  *)
(* is not empty when the terminal node is chosen; the single word of width *)
(* 20 on lines of length 5 yields breakpoints [0, 2] and ratios[1] = -1.   *)
(* Stated at the tuning the constructor sets.                              *)
(***************************************************************************)
OverfullWord == Closed(<<Box(20)>>)

C1_BreakAlwaysReturns ==
  (WellFormed /\ PositiveLines /\ DefaultTuning) =>
     /\ pc # "threw"
     /\ (pc = "scan" /\ b = m) => active_list # null
     /\ (paragraph = OverfullWord /\ lines_array = <<5>> /\ pc = "done") =>
           /\ result.breakpoints = (0 :> 0 @@ 1 :> 2)
           /\ result.ratios[1] = Ratio(-1, 1)

\* the word of width 20 on lines of length 5, default tuning: break() threw
C1_OverfullWordThrows ==
  /\ paragraph = OverfullWord /\ lines_array = <<5>> /\ DefaultTuning
  /\ pc = "threw" /\ b = m

(***************************************************************************)
(* C2.  With q = 0, whenever some sequence of legal breakpoints that ends  *)
(* at the forcing penalty has every ratio in [-1, roh], the breakpoints    *)
(* break() returns are such a sequence and their total demerits are the    *)
(* minimum over all such sequences, whatever the schedule of line lengths. *)
(* Stated at the tuning the constructor sets.                              *)
(***************************************************************************)
C2_ReturnsFewestDemerits ==
  (pc = "done" /\ DefaultTuning /\ WellFormed /\ PositiveLines
      /\ DemLess(optimum(startNode, 0), DInf)) =>
     /\ \A k \in 1..LastLine : feasibleLine(walked(k - 1), breakpoints(k))
     /\ DemEq(walked(LastLine).totaldemerits, optimum(startNode, 0))

\* words and glue only, a schedule that varies: every line of the result
\* is feasible, and another sequence has fewer demerits
C2_VaryingScheduleMisses ==
  /\ pc = "done" /\ DefaultTuning /\ WellFormed /\ PositiveLines
  /\ \A i \in 0..(m - 2) : par(i).type # "penalty"
  /\ \A k \in 1..LastLine : feasibleLine(walked(k - 1), breakpoints(k))
  /\ DemLess(optimum(startNode, 0), walked(LastLine).totaldemerits)

(***************************************************************************)
(* C3.  In a result on a well-formed paragraph of m items the breakpoints  *)
(* increase strictly, none exceeds m - 1, and the last one is m - 1.       *)
(* Stated at the tuning the constructor sets.                              *)
(***************************************************************************)
C3_BreakpointsIncrease ==
  (pc = "done" /\ WellFormed /\ DefaultTuning) =>
     /\ \A k \in 1..LastLine :
           breakpoints(k - 1) < breakpoints(k) /\ breakpoints(k) <= m - 1
     /\ breakpoints(LastLine) = m - 1

\* item 0 is a legal penalty and the result breaks there: breakpoints[1] = 0
C3_BreakAtItemZero ==
  /\ pc = "done" /\ WellFormed /\ DefaultTuning /\ Legal(0)
  /\ LastLine >= 1 /\ breakpoints(1) = 0

(***************************************************************************)
(* C4.  ratios[k] of a result is the adjustment ratio of the line between  *)
(* breakpoints[k-1] and breakpoints[k], for every line k >= 1 that is not  *)
(* an overfull line (one whose own ratio is below -1).  Stated for         *)
(* well-formed paragraphs at the tuning the constructor sets.              *)
(***************************************************************************)
C4_RatiosMatchLines ==
  (pc = "done" /\ WellFormed /\ PositiveLines /\ DefaultTuning) =>
     \A k \in 1..LastLine :
        RLess(TrueRatio(k), Ratio(-1, 1)) \/ ratios(k) = TrueRatio(k)

\* a line that fits exactly is returned with the ratio -1 its first node got
\* from a later breakpoint
C4_RatioOfLaterBreak ==
  /\ pc = "done" /\ WellFormed /\ PositiveLines /\ DefaultTuning
  /\ \E k \in 1..LastLine :
        TrueRatio(k) = Ratio(0, 1) /\ ratios(k) = Ratio(-1, 1)

(***************************************************************************)
(* C5.  Every breakpoints[k], k >= 1, of a result is a legal breakpoint (a *)
(* glue right after a box, or a penalty below +Infinity), and break() runs *)
(* the main loop at item b exactly when b is a legal breakpoint.           *)
(***************************************************************************)
C5_BreaksAtLegalItems ==
  /\ [](pc = "done" => \A k \in 1..LastLine : Legal(breakpoints(k)))
  /\ [](pc \in {"inner", "insert"} => Legal(b))
  /\ [][(pc = "scan" /\ b < m) =>
          ((pc' \in {"inner", "threw"}) <=> Legal(b))]_vars

\* a result that breaks at a glue and at a hyphen
C5_BreaksAtGlueAndHyphen ==
  /\ pc = "done"
  /\ \E k \in 1..LastLine : par(breakpoints(k)).type = "glue"
  /\ \E k \in 1..LastLine : par(breakpoints(k)) = Hyphen

(***************************************************************************)
(* C6.  A result has breakpoints and ratios at 0..line of the chosen node, *)
(* breakpoints[0] = 0, ratios[0] unset and every later ratio set; the line *)
(* of every node is the number of previous-steps from it to the start node,*)
(* so the walk never reads a null node.                                    *)
(***************************************************************************)
C6_ResultFilledByWalk ==
  /\ \A n \in 1..Len(nodes) :
        /\ hops(n, nodes[n].line) = 1
        /\ \A h \in 0..nodes[n].line : hops(n, h) # null
  /\ pc = "threw" => chosen = null
  /\ pc = "done" =>
        /\ DOMAIN result.breakpoints = 0..nodes[chosen].line
        /\ DOMAIN result.ratios = 0..nodes[chosen].line
        /\ breakpoints(0) = 0
        /\ ratios(0) = RUndef
        /\ \A k \in 1..LastLine :
              /\ ratios(k) # RUndef
              /\ breakpoints(k) = nodes[hops(chosen, LastLine - k)].position

\* a result of three lines
C6_ThreeLines == pc = "done" /\ LastLine = 3 /\ nodes[chosen].line = 3

(***************************************************************************)
(* C7.  Overfull recovery.  When mainLoop(b) deactivates the only active   *)
(* node, with r < -1 and no feasible predecessor of b found, the node is   *)
(* put back as the single active node with ratio -1; a node for a line     *)
(* ending at b is then created after it, and the scan goes on with an      *)
(* active list that is not empty.                                          *)
(***************************************************************************)
\* mainLoop is about to deactivate the only active node, nothing feasible yet
Overfull ==
  /\ pc = "inner"
  /\ ActiveNodes = {a}
  /\ Dmax = DInf
  /\ RLess(computeAdjustmentRatio(nodes[a], b)[2], Ratio(-1, 1))

\* the inner loop is left with a node on the active list that is too wide
\* for the line to b
Recovered ==
  /\ pc = "insert" /\ a = null
  /\ active_list # null
  /\ RLess(computeAdjustmentRatio(nodes[active_list], b)[2], Ratio(-1, 1))

C7_OverfullRecovery ==
  [][/\ Overfull =>
          /\ pc' = "insert"
          /\ active_list' = a
          /\ nodes'[a].link = null
          /\ nodes'[a].ratio = Ratio(-1, 1)
          /\ DemLess(Dmax', DInf)
     /\ Recovered =>
          /\ pc' = "scan" /\ b' = b + 1
          /\ active_list' # null
          /\ nodes'[active_list].ratio = Ratio(-1, 1)
          /\ \E n \in linked(active_list)' :
                /\ nodes'[n].position = b
                /\ nodes'[n].previous = active_list]_vars

C7_NodeReadmitted == Recovered /\ WellFormed /\ PositiveLines

(***************************************************************************)
(* C8.  An overfull line of a result (one whose own adjustment ratio is    *)
(* below -1) has ratios[k] = -1 exactly, and no ratio of a result is below *)
(* -1.                                                                     *)
(***************************************************************************)
C8_OverfullLineHasRatioMinusOne ==
  pc = "done" =>
     \A k \in 1..LastLine :
        /\ RLeq(Ratio(-1, 1), ratios(k))
        /\ RLess(TrueRatio(k), Ratio(-1, 1)) => ratios(k) = Ratio(-1, 1)

\* a result with an overfull line
C8_OverfullLineReturned ==
  /\ pc = "done" /\ WellFormed /\ PositiveLines
  /\ \E k \in 1..LastLine : RLess(TrueRatio(k), Ratio(-1, 1))

\* C8 as the specification words it: an overfull line has a ratio below -1
C8_OverfullLineHasRatioBelowMinusOne ==
  pc = "done" =>
     \A k \in 1..LastLine :
        RLess(TrueRatio(k), Ratio(-1, 1)) => RLess(ratios(k), Ratio(-1, 1))

(***************************************************************************)
(* C9.  A paragraph whose last item is not a forcing penalty, or an empty  *)
(* lines_array, is refused before any node is created or any item scanned. *)
(***************************************************************************)
Malformed ==
  \/ lines_array = <<>>
  \/ IF m = 0 THEN TRUE ELSE ~Forced(m - 1)

C9_MalformedInputRefused ==
  Malformed =>
     /\ nodes = <<>> /\ active_list = null
     /\ b = 0
     /\ pc \notin {"scan", "inner", "insert", "walk", "done"}

\* a result returned for a malformed input
C9_MalformedInputBroken == Malformed /\ pc = "done"

(***************************************************************************)
(* C10.  With q # 0, k the line of the active node of fewest demerits and  *)
(* delta = line - k: the node chosen is an active node whose delta lies    *)
(* between 0 and q and is the closest to q of all such deltas, and it has  *)
(* the fewest demerits of the active nodes with its delta.                 *)
(***************************************************************************)
delta(n) == nodes[n].line - nodes[chooseNodeFewestDemerits].line

Between0AndQ(x) == (q <= x /\ x <= 0) \/ (0 <= x /\ x <= q)

Sign(x) == IF x > 0 THEN 1 ELSE IF x < 0 THEN -1 ELSE 0

\* delta has the sign of q and |delta| <= |q|
Loosened(n) == Sign(delta(n)) = Sign(q) /\ Abs(delta(n)) <= Abs(q)

RECURSIVE optimumOfLines(_, _, _)
optimumOfLines(n, from, k) ==
  IF from >= m THEN (IF k = 0 THEN n.totaldemerits ELSE DInf)
  ELSE IF k = 0 THEN DInf
  ELSE LET forced == {i \in from..(m - 1) : Forced(i)}
           stop   == IF forced = {} THEN m - 1
                     ELSE CHOOSE i \in forced : \A h \in forced : i <= h
           cands  == {bb \in from..stop : Legal(bb) /\ feasibleLine(n, bb)}
       IN  MinDem({optimumOfLines(lineEnd(n, bb), bb + 1, k - 1) : bb \in cands}
                  \cup {DInf})

\* there is a feasible sequence of k lines
FeasibleLines(k) ==
  k \in 1..m /\ DemLess(optimumOfLines(startNode, 0, k), DInf)

\* the numbers of lines of the minimum-demerits sequences
OptimumLines ==
  {k \in 1..m : /\ FeasibleLines(k)
                /\ DemEq(optimumOfLines(startNode, 0, k), optimum(startNode, 0))}

\* break() returned a result of k lines
ReturnsLines(k) == pc = "done" /\ LastLine = k

\* C11: when the minimum-demerits sequences of a closed paragraph have k
\* lines, break() with q = 0 returns k lines; with q = +1 it returns k + 1
\* lines if a feasible sequence of k + 1 lines exists; with q = -1 it returns
\* k - 1 lines if a feasible sequence of k - 1 lines exists, and the k-line
\* optimum if none exists.
C11_LoosenessEndToEnd ==
  (pc \in {"done", "threw"} /\ WellFormed /\ PositiveLines)
    => \A k \in OptimumLines :
         OptimumLines = {k} =>
           /\ q = 0 => ReturnsLines(k)
           /\ (q = 1 /\ FeasibleLines(k + 1)) => ReturnsLines(k + 1)
           /\ (q = -1 /\ FeasibleLines(k - 1)) => ReturnsLines(k - 1)
           /\ (q = -1 /\ ~FeasibleLines(k - 1))
                => /\ ReturnsLines(k)
                   /\ DemEq(walked(k).totaldemerits, optimum(startNode, 0))

\* q = -1 on a paragraph whose optimum is one line: break() returns the two
\* lines it returns for q = +1
C11_TighterReturnsMoreLines ==
  /\ pc = "done" /\ WellFormed /\ PositiveLines
  /\ q = -1 /\ roh = Ratio(5, 1) /\ alpha = 0 /\ gamma = 0
  /\ OptimumLines = {1}
  /\ FeasibleLines(2)
  /\ LastLine = 2

(***************************************************************************)
(* C12.  Monotonicity in roh and gamma.                                    *)
(***************************************************************************)
\* the total demerits of the terminal node break() chose
ChosenDemerits == nodes[chosen].totaldemerits

\* an earlier call that returned, with the same arguments, q and alpha
Comparable(e) ==
  /\ e.pc = "done"
  /\ e.paragraph = paragraph /\ e.lines_array = lines_array
  /\ e.q = q /\ e.alpha = alpha

\* C12: of two calls that differ in roh alone, the one with the greater roh
\* does not choose a terminal node of more total demerits; of two calls that
\* differ in gamma alone, the one with the greater gamma does not choose a
\* terminal node of fewer total demerits.
C12_MonotoneInRohAndGamma ==
  pc = "done" =>
    \A k \in 1..Len(earlier) :
      Comparable(earlier[k]) =>
        /\ (earlier[k].gamma = gamma /\ RLess(earlier[k].roh, roh))
              => DemLeq(ChosenDemerits, earlier[k].totaldemerits)
        /\ (earlier[k].roh = roh /\ earlier[k].gamma < gamma)
              => DemLeq(earlier[k].totaldemerits, ChosenDemerits)

\* a call with gamma raised from 0 to 200 chooses a node of fewer demerits
C12_GammaLowersDemerits ==
  /\ pc = "done" /\ WellFormed /\ PositiveLines
  /\ \E k \in 1..Len(earlier) :
        /\ Comparable(earlier[k])
        /\ earlier[k].roh = roh /\ earlier[k].gamma < gamma
        /\ DemLess(ChosenDemerits, earlier[k].totaldemerits)

\* a call with roh raised from 1 to 5 chooses a node of more demerits
C12_RohRaisesDemerits ==
  /\ pc = "done" /\ WellFormed /\ PositiveLines
  /\ \E k \in 1..Len(earlier) :
        /\ Comparable(earlier[k])
        /\ earlier[k].gamma = gamma /\ RLess(earlier[k].roh, roh)
        /\ DemLess(earlier[k].totaldemerits, ChosenDemerits)

(***************************************************************************)
(* C13.  Determinism and reuse.                                            *)
(***************************************************************************)
\* an earlier call with the paragraph, schedule and tuning of this one
SameInput(e) ==
  /\ e.paragraph = paragraph /\ e.lines_array = lines_array
  /\ e.q = q /\ e.roh = roh /\ e.alpha = alpha /\ e.gamma = gamma

\* C13: a call ends as every earlier call with the same paragraph, schedule
\* and tuning ended on this instance, the first (fresh) call included: the
\* same breakpoints and ratios, or a throw both times; the call starts from
\* an active list holding the start node alone, a null passive list and
\* zero sums; and a call in progress changes neither the paragraph items
\* nor the schedule.
C13_DeterminismAndReuse ==
  /\ [](pc \in {"done", "threw"} =>
          \A k \in 1..Len(earlier) :
            SameInput(earlier[k]) =>
              earlier[k].pc = pc /\ earlier[k].result = result)
  /\ [][(pc \in {"new", "idle"} /\ pc' = "scan") =>
          /\ nodes' = <<startNode>>
          /\ active_list' = 1
          /\ passive_list' = null
          /\ <<sum_w', sum_y', sum_z'>> = <<0, Fin(0), Fin(0)>>]_vars
  /\ [][pc \notin {"new", "idle"} => UNCHANGED <<paragraph, lines_array>>]_vars

\* the third call on an instance repeats the first, after a call on another
\* paragraph, and returns the two or more lines the first returned
C13_ThirdCallRepeatsFirst ==
  /\ pc = "done"
  /\ Len(earlier) = 2
  /\ SameInput(earlier[1])
  /\ earlier[2].paragraph # paragraph
  /\ LastLine >= 2
  /\ earlier[1].result = result

(***************************************************************************)
(* C14.  The defaults of a breaker that has not been configured.           *)
(***************************************************************************)
\* the adjustment ratio of the line from node n to item b is finite and
\* above the default threshold
AboveDefaultRoh(n) ==
  LET r == computeAdjustmentRatio(nodes[n], b)[2]
  IN  r # RInf /\ r # RUndef /\ RLess(Ratio(5, 1), r)

\* C14 (as the program has it): a breaker that has not been configured has
\* roh = 5, q = 0, alpha = 0, gamma = 0, and with these values the inner
\* loop records no predecessor for a candidate line whose ratio is finite
\* and above 5.
C14_DefaultRohIsFive ==
  /\ [](pc = "new" => (q = 0 /\ roh = Ratio(5, 1) /\ alpha = 0 /\ gamma = 0))
  /\ [][(pc = "inner" /\ DefaultTuning /\ AboveDefaultRoh(a))
          => UNCHANGED <<D, Ac, Dmax>>]_vars

\* with the defaults, the node just examined gives a line of finite ratio
\* above 5 and nothing has been recorded for it
C14_CandidateSkipped ==
  /\ pc \in {"inner", "insert"}
  /\ DefaultTuning
  /\ prev_a # null
  /\ AboveDefaultRoh(prev_a)
  /\ D = NoDemerits

\* C14 (as stated): a breaker that has not been configured has roh =
\* +Infinity, q = 0, alpha = 0, gamma = 0, and with the defaults every
\* candidate line of finite ratio at least -1 is recorded.
C14_DefaultRohIsInfinity ==
  /\ [](pc = "new" => (q = 0 /\ roh = RInf /\ alpha = 0 /\ gamma = 0))
  /\ [][(pc = "inner" /\ DefaultTuning /\ AboveDefaultRoh(a))
          => D' # D]_vars

(***************************************************************************)
(* C15.  A built paragraph on one line that is wide enough.                *)
(***************************************************************************)
\* the paragraph is one Paragraph.build produces: boxes and word glue, no
\* two boxes in a row, then the two closing items
Built ==
  /\ WellFormed
  /\ \A i \in 0..(m - 3) :
        \/ par(i) = WordGlue
        \/ par(i).type = "box" /\ par(i).width > 0
             /\ (i > 0 => par(i - 1).type # "box")

\* C15: for a built paragraph and a schedule of one line length that is at
\* least the paragraph's total natural width, break() (looseness 0) returns
\* breakpoints [0, m - 1] and ratios[1] >= 0.
C15_SingleLineFit ==
  (/\ pc \in {"done", "threw"}
   /\ q = 0
   /\ Built
   /\ Len(lines_array) = 1
   /\ lines_array[1] >= naturalWidth(paragraph))
    => /\ pc = "done"
       /\ LastLine = 1
       /\ breakpoints(0) = 0
       /\ breakpoints(1) = m - 1
       /\ ratios(1) # RUndef
       /\ RLeq(Ratio(0, 1), ratios(1))

\* three words on a line five units longer than they are
C15_ThreeWordsOnOneLine ==
  /\ pc = "done"
  /\ q = 0
  /\ Built
  /\ m = 7
  /\ lines_array = <<naturalWidth(paragraph) + 5>>
  /\ result.breakpoints = (0 :> 0 @@ 1 :> 6)

(***************************************************************************)
(* C16.  The fitness-change penalty.                                       *)
(***************************************************************************)
\* the line to node e, which follows node n, changes the fitness class by
\* more than one (line 1091)
Jump(n, e) == Abs(e.fitness - n.fitness) > 1

\* the fewest total demerits of a sequence as in optimum that continues node
\* n with exactly j more changes of fitness class by more than one; DInf
\* when there is none
RECURSIVE optimumOfJumps(_, _, _)
optimumOfJumps(n, from, j) ==
  IF from >= m THEN (IF j = 0 THEN n.totaldemerits ELSE DInf)
  ELSE LET forced == {i \in from..(m - 1) : Forced(i)}
           stop   == IF forced = {} THEN m - 1
                     ELSE CHOOSE i \in forced : \A h \in forced : i <= h
           cands  == {bb \in from..stop :
                        /\ Legal(bb) /\ feasibleLine(n, bb)
                        /\ (Jump(n, lineEnd(n, bb)) => j > 0)}
           rest(bb) == IF Jump(n, lineEnd(n, bb)) THEN j - 1 ELSE j
       IN  MinDem({optimumOfJumps(lineEnd(n, bb), bb + 1, rest(bb)) : bb \in cands}
                  \cup {DInf})

\* the fewest demerits, gamma apart, are those of a sequence without such a
\* change and also those of a sequence with one, and gamma exceeds them
EqualButForGamma ==
  /\ DemLess(optimumOfJumps(startNode, 0, 0), DInf)
  /\ DemEq(optimumOfJumps(startNode, 0, 1),
           DemAdd(optimumOfJumps(startNode, 0, 0), DemOfInt(gamma)))
  /\ DemLess(optimumOfJumps(startNode, 0, 0), DemOfInt(gamma))

\* every two consecutive lines of the result have fitness classes that
\* differ by at most one
SmoothResult ==
  \A k \in 2..LastLine : ~Jump(walked(k - 1), walked(k))

\* C16: when a feasible sequence whose consecutive lines change the fitness
\* class by at most one and a feasible sequence with a greater change have
\* the same demerits apart from gamma, the fewest of all, and gamma is
\* greater than these demerits, break() returns a sequence whose consecutive
\* lines change the class by at most one, with those demerits.
C16_FitnessPenalty ==
  (pc \in {"done", "threw"} /\ q = 0 /\ WellFormed /\ PositiveLines
     /\ EqualButForGamma)
    => /\ pc = "done"
       /\ SmoothResult
       /\ DemEq(walked(LastLine).totaldemerits, optimumOfJumps(startNode, 0, 0))

\* the three-line result for the paragraph with two sequences of equal
\* demerits, under the large gamma
C16_SmoothSequenceReturned ==
  /\ pc = "done" /\ q = 0 /\ WellFormed /\ PositiveLines
  /\ EqualButForGamma
  /\ gamma = FitnessTuning.gamma
  /\ LastLine = 3
  /\ SmoothResult

(***************************************************************************)
(* C17.  The termination guard j0.                                         *)
(***************************************************************************)
\* the least line number beyond which lines(j) is constant
LeastConstantLine ==
  LET n == Len(lines_array)
  IN  CHOOSE j \in 0..n :
        /\ \A i \in (j + 1)..(n + 1) : lines(i) = lines(j + 1)
        /\ \A k \in 0..(j - 1) :
              \E i \in (k + 1)..(n + 1) : lines(i) # lines(k + 1)

\* C17: with q = 0, j0() is the least line number beyond which lines(j) is
\* constant (positive for a schedule such as [10, 10, 5]); with q # 0 it is
\* +Infinity; and a turn of the inner loop leaves the loop exactly when the
\* next node is null, or has a line number >= j while j < j0.
C17_J0IsLeastConstantLine ==
  /\ []((pc # "new" /\ PositiveLines) =>
          /\ q = 0 => j0 = Fin(LeastConstantLine)
          /\ q # 0 => j0 = PInf)
  /\ [][pc = "inner" =>
          ((pc' = "insert") <=>
             \/ a' = null
             \/ /\ a' # null
                /\ nodes[a'].line >= computeAdjustmentRatio(nodes[a], b)[1]
                /\ (j0 = PInf \/ computeAdjustmentRatio(nodes[a], b)[1] < j0.v))]_vars

\* the inner loop runs for the schedule [10, 10, 5] with q = 0, and j0() is 0
C17_J0ZeroForChangingSchedule ==
  /\ pc = "inner"
  /\ q = 0
  /\ lines_array = <<10, 10, 5>>
  /\ LeastConstantLine > 0
  /\ j0 = Fin(0)

(***************************************************************************)
(* C18.  Inserted nodes stay on the active list.                           *)
(***************************************************************************)
\* the nodes reachable from node n along link, in the heap ns
RECURSIVE linkedIn(_, _)
linkedIn(ns, n) == IF n = null THEN {} ELSE {n} \cup linkedIn(ns, ns[n].link)

\* the test of line 922 for node n at item b
Deactivates(n) ==
  \/ RLess(computeAdjustmentRatio(nodes[n], b)[2], Ratio(-1, 1))
  \/ par(b).penalty = NInf

\* C18: when mainLoop(b) returns, every node the insertion step created at b
\* is reachable from the head of the active list; and a node leaves the
\* active list only within a mainLoop(b) call for which its ratio to b is
\* below -1 or item b is a forcing penalty.
C18_InsertedNodesStayReachable ==
  /\ [][(pc = "insert" /\ pc' = "scan") =>
          \A n \in 2..Len(nodes') :
            nodes'[n].position = b => n \in linkedIn(nodes', active_list')]_vars
  /\ [][\A n \in linkedIn(nodes, active_list) :
          n \notin linkedIn(nodes', active_list') =>
            (pc \in {"inner", "insert"} /\ Deactivates(n))]_vars

\* "foo bar" with looseness 1: mainLoop has returned from item b - 1 and a
\* node it created there is not on the active list
C18_InsertedNodeUnlinked ==
  /\ pc = "scan" /\ b > 0
  /\ paragraph = Closed(Words(<<3, 3>>)) /\ lines_array = <<10>>
  /\ q = 1 /\ roh = Ratio(5, 1) /\ alpha = 0 /\ gamma = 0
  /\ \E n \in 2..Len(nodes) :
        nodes[n].position = b - 1 /\ n \notin linked(active_list)

(***************************************************************************)
(* C19.  The shape and the order of the active list.                       *)
(***************************************************************************)
\* following link from node n ends at null within fuel steps
RECURSIVE chainEnds(_, _)
chainEnds(n, fuel) ==
  IF n = null THEN TRUE
  ELSE IF fuel = 0 THEN FALSE
  ELSE chainEnds(nodes[n].link, fuel - 1)

\* the active list ends at null without visiting a node twice
Acyclic == chainEnds(active_list, Len(nodes))

\* each node of the active list is followed by a node of a greater line
\* number, or of the same line number and created later
OrderedByLine ==
  \A n \in linked(active_list) :
    LET nx == nodes[n].link
    IN  nx # null =>
          \/ nodes[n].line < nodes[nx].line
          \/ nodes[n].line = nodes[nx].line /\ n < nx

\* C19: whenever mainLoop has returned, the active list is a finite chain
\* without a cycle, in non-decreasing order of line, nodes of equal line in
\* the order of their insertion.
C19_ActiveListOrdered ==
  (pc = "scan" /\ b > 0) => (Acyclic /\ (Acyclic => OrderedByLine))

\* looseness 0: mainLoop has returned and a node of the active list is
\* followed by a node of a smaller line number
C19_LaterLineFirst ==
  /\ pc = "scan" /\ b > 0
  /\ WellFormed /\ PositiveLines
  /\ Tuning = FitnessTuning
  /\ Acyclic
  /\ \E n \in linked(active_list) :
        nodes[n].link # null /\ nodes[n].line > nodes[nodes[n].link].line

(***************************************************************************)
(* C20.  Deactivation.                                                     *)
(***************************************************************************)
\* a node leaves the active list only within a mainLoop(b) call for which
\* its ratio to b is below -1 or item b is a forcing penalty
UnlinkedOnlyByRule ==
  \A n \in linkedIn(nodes, active_list) :
    n \notin linkedIn(nodes', active_list') =>
      (pc \in {"inner", "insert"} /\ Deactivates(n))

\* a node that leaves the active list is on the passive list
UnlinkedIsPassive ==
  \A n \in linkedIn(nodes, active_list) :
    n \notin linkedIn(nodes', active_list') =>
      n \in linkedIn(nodes', passive_list')

\* when mainLoop(b) returns, no node created before b whose ratio to b is
\* below -1 is on the active list, nor any such node if b is a forcing
\* penalty
RuleUnlinks ==
  (pc = "insert" /\ pc' = "scan") =>
    \A n \in linkedIn(nodes', active_list') :
      nodes'[n].position # b => ~Deactivates(n)

\* when mainLoop(b) returns from a forcing penalty, every node of the active
\* list has position b
AllAtForcedBreak ==
  (pc = "insert" /\ pc' = "scan" /\ par(b).penalty = NInf) =>
    \A n \in linkedIn(nodes', active_list') : nodes'[n].position = b

\* C20: in mainLoop(b) an active node is unlinked if and only if its ratio
\* to b is below -1 or item b is a forcing penalty; every unlinked node is
\* pushed on the passive list; and after mainLoop at a forcing penalty b
\* every node of the active list has position b.
C20_DeactivationRule ==
  /\ [][UnlinkedOnlyByRule]_vars
  /\ [][RuleUnlinks]_vars
  /\ [][UnlinkedIsPassive]_vars
  /\ [][AllAtForcedBreak]_vars

\* "foo bar" with looseness 1: the node inserted at the forcing penalty is on
\* neither list when mainLoop returns
C20_UnlinkedAndNotPassive ==
  /\ pc = "scan" /\ b = m
  /\ paragraph = Closed(Words(<<3, 3>>)) /\ lines_array = <<10>>
  /\ q = 1 /\ roh = Ratio(5, 1) /\ alpha = 0 /\ gamma = 0
  /\ \E n \in 2..Len(nodes) :
        /\ nodes[n].position = m - 1
        /\ n \notin linked(active_list)
        /\ n \notin linked(passive_list)


(***************************************************************************)
(* C21.  Insertion at a breakpoint.                                        *)
(***************************************************************************)
\* the classes admitted at the end of a pass: the insertion runs when Dmax
\* is finite (line 950) and takes each class with D[c] <= Dmax + gamma
\* (line 1122)
AdmittedClasses ==
  IF DemLess(Dmax, DInf)
  THEN {c \in 0..3 : DemLeq(D[c], DemAdd(Dmax, DemOfInt(gamma)))}
  ELSE {}

\* the nodes the step creates
Created == (Len(nodes) + 1)..Len(nodes')

\* C21: at the end of a pass of mainLoop(b) with a finite Dmax a node is
\* created for class c exactly when D[c] <= Dmax + gamma, between one and
\* four nodes in all, and none is created when Dmax is infinite; D[c] is
\* the least demerits of the feasible lines of class c from the nodes the
\* pass visited to b; the node has position b, line Ac[c].line + 1, fitness
\* c, total demerits D[c], previous Ac[c], a node that attains D[c], and the
\* ratio the pass used for the line from Ac[c] to b.
C21_InsertionRule ==
  \* at the end of a pass each finite class minimum D[c] is the demerits of
  \* the line from Ac[c] to b, a line of class c whose ratio is in [-1, roh]
  \* and is the ratio field of Ac[c]: the adjustment ratio of that line, or
  \* the -1 taken for it when Ac[c] is the node an overfull line was
  \* readmitted for; and Dmax is the least of the four minima
  /\ [](pc = "insert" =>
          /\ \A c \in 0..3 :
                DemLess(D[c], DInf) =>
                  /\ Ac[c] # null
                  /\ LET r == nodes[Ac[c]].ratio
                         t == lineRatio(nodes[Ac[c]], b)
                     IN  /\ RLeq(Ratio(-1, 1), r) /\ RLeq(r, roh)
                         /\ r = t \/ (RLess(t, Ratio(-1, 1)) /\ r = Ratio(-1, 1))
                         /\ computeDemeritsAndFitnessClass(nodes[Ac[c]], b, r)
                              = <<D[c], c>>
          /\ \A c \in 0..3 : DemLeq(Dmax, D[c])
          /\ \E c \in 0..3 : Dmax = D[c])
  \* the pass visits node a: no class minimum grows, and the minimum of the
  \* class of a feasible line from a to b is at most the demerits of that
  \* line
  /\ [][pc = "inner" =>
          /\ \A c \in 0..3 : DemLeq(D'[c], D[c])
          /\ feasibleLine(nodes[a], b) =>
                LET dc == computeDemeritsAndFitnessClass(
                            nodes[a], b, lineRatio(nodes[a], b))
                IN  DemLeq(D'[dc[2]], dc[1])]_vars
  \* the end of a pass creates one node for each admitted class, in the
  \* order of the classes, and no other node: none when Dmax is infinite,
  \* between one and four otherwise
  /\ [][pc = "insert" =>
          /\ Cardinality(Created) = Cardinality(AdmittedClasses)
          /\ {nodes'[n].fitness : n \in Created} = AdmittedClasses
          /\ \A n1, n2 \in Created : n1 < n2 => nodes'[n1].fitness < nodes'[n2].fitness
          /\ \A n \in 1..Len(nodes) : nodes'[n] = nodes[n] \/ nodes'[n].link \in Created
          /\ IF DemLess(Dmax, DInf)
             THEN Cardinality(Created) \in 1..4
             ELSE Created = {}]_vars
  \* the fields of each node created for a break at b
  /\ [][pc = "insert" =>
          \A n \in Created :
            LET c == nodes'[n].fitness
            IN  /\ nodes'[n].position = b
                /\ nodes'[n].previous = Ac[c]
                /\ nodes'[n].line = nodes[Ac[c]].line + 1
                /\ nodes'[n].totaldemerits = D[c]
                /\ nodes'[n].ratio = nodes[Ac[c]].ratio]_vars

\* the end of a pass with two admitted classes, one of them with demerits
\* above Dmax
C21_AdmittedAboveDmax ==
  /\ pc = "insert" /\ WellFormed /\ PositiveLines
  /\ Cardinality(AdmittedClasses) >= 2
  /\ \E c \in AdmittedClasses : DemLess(Dmax, D[c])

(***************************************************************************)
(* C22.  The look-ahead totals of a node.                                  *)
(***************************************************************************)
\* the first item from bb on that is a box, or a forcing penalty after bb;
\* m when there is none
LookAheadStop(bb) ==
  LET stops == {i \in bb..(m - 1) : par(i).type = "box" \/ (Forced(i) /\ i > bb)}
  IN  IF stops = {} THEN m ELSE CHOOSE i \in stops : \A k \in stops : i <= k

\* the (w, y, z) of the glue among the items i .. j - 1
RECURSIVE glueBetween(_, _)
glueBetween(i, j) ==
  IF i >= j THEN <<0, Fin(0), Fin(0)>>
  ELSE LET t == glueBetween(i + 1, j)
       IN  IF par(i).type = "glue"
           THEN <<par(i).width + t[1], ExtAdd(par(i).stretchability, t[2]),
                  ExtAdd(par(i).shrinkability, t[3])>>
           ELSE t

\* the widths of the boxes and the glue among the items i .. j - 1
RECURSIVE widthBetween(_, _)
widthBetween(i, j) ==
  IF i >= j THEN 0
  ELSE (IF par(i).type = "penalty" THEN 0 ELSE par(i).width) + widthBetween(i + 1, j)

\* the nodes created at a break (all but the start node)
BreakNodes == 2..Len(nodes)

\* C22: the totals of a node created at b are the running sums at b plus the
\* (w, y, z) of every glue from index b up to the next box or the first
\* forcing penalty after b, penalties adding nothing; so the length mainLoop
\* computes for a line from that node to a later item is the width of the
\* boxes and glue between the two breaks less the glue discarded at the
\* first.
C22_LookAheadTotals ==
  LET \* the running sums at bb plus the glue from bb up to the stop
      LookAheadTotals(bb) ==
        LET t == sumsBefore(bb)
            g == glueBetween(bb, LookAheadStop(bb))
        IN  <<t[1] + g[1], ExtAdd(t[2], g[2]), ExtAdd(t[3], g[3])>>
  IN  /\ \A n \in BreakNodes :
            <<nodes[n].totalwidth, nodes[n].totalstretch, nodes[n].totalshrink>>
              = LookAheadTotals(nodes[n].position)
      /\ pc = "inner" =>
            \A n \in BreakNodes :
              sum_w - nodes[n].totalwidth
                = widthBetween(nodes[n].position, b)
                    - glueBetween(nodes[n].position, LookAheadStop(nodes[n].position))[1]

\* a node created at a glue that another glue and then a forcing penalty
\* follow: its totals hold both glues
C22_TwoGluesDiscarded ==
  /\ pc = "inner" /\ WellFormed /\ b = m - 1
  /\ \E n \in BreakNodes :
        LET bb == nodes[n].position
        IN  /\ bb + 2 = m - 1
            /\ par(bb) = WordGlue /\ par(bb + 1).type = "glue"
            /\ nodes[n].totalwidth = sumsBefore(bb)[1] + 1
            /\ nodes[n].totalstretch = PInf

(***************************************************************************)
(* C23.  The adjustment ratio.                                             *)
(***************************************************************************)
\* the length L of the line from node n to item b: sum_w - n.totalwidth, plus
\* the width of item b if b is a penalty
LineLength(n) ==
  sum_w - nodes[n].totalwidth + (IF par(b).type = "penalty" THEN par(b).width ELSE 0)

\* the stretch Y and the shrink Z of that line
LineStretch(n) == ExtSub(sum_y, nodes[n].totalstretch)
LineShrink(n) == ExtSub(sum_z, nodes[n].totalshrink)

\* the target length of that line, lines(j) with j = n.line + 1
LineTarget(n) == lines(nodes[n].line + 1).v

\* r is the adjustment ratio of the line from node n to item b
IsAdjustmentRatio(n, r) ==
  LET L  == LineLength(n)
      lj == LineTarget(n)
      \* x / y for an integer x and a y > 0 that is finite or +Infinity
      Quotient(x, y) == IF y.k = "pinf" THEN Ratio(0, 1) ELSE Ratio(x, y.v)
  IN  /\ L = lj => r = Ratio(0, 1)
      /\ (L < lj /\ ExtPositive(LineStretch(n))) => r = Quotient(lj - L, LineStretch(n))
      /\ (L < lj /\ ~ExtPositive(LineStretch(n))) => r = RInf
      /\ (L > lj /\ ExtPositive(LineShrink(n))) =>
            /\ r = Quotient(lj - L, LineShrink(n))
            /\ LineShrink(n).k = "fin" => RLess(r, Ratio(0, 1))
      /\ (L > lj /\ ~ExtPositive(LineShrink(n))) => r = RInf

\* the turn of the inner loop on node a records a as the best predecessor of
\* its class
Recorded == pc = "inner" /\ \E c \in 0..3 : Ac'[c] = a /\ D'[c] # D[c]

\* C23: for a schedule that is not empty, the <<j, r>> mainLoop gets for
\* the active node a and the item b has j = a.line + 1 and, with L = sum_w -
\* a.totalwidth (plus the width of item b if b is a penalty): r = 0 if
\* L = lines(j); for L < lines(j), r = (lines(j) - L) / Y if Y = sum_y -
\* a.totalstretch > 0 and +Infinity otherwise; for L > lines(j),
\* r = (lines(j) - L) / Z, negative, if Z = sum_z - a.totalshrink > 0 and
\* +Infinity otherwise; and this r, or the -1 taken for an r below -1, is
\* the ratio written to a when a is recorded as a predecessor.
C23_AdjustmentRatio ==
  /\ []((pc = "inner" /\ Len(lines_array) > 0) =>
          /\ computeAdjustmentRatio(nodes[a], b)[1] = nodes[a].line + 1
          /\ IsAdjustmentRatio(a, computeAdjustmentRatio(nodes[a], b)[2]))
  /\ [][(Recorded /\ Len(lines_array) > 0) =>
          \/ IsAdjustmentRatio(a, nodes'[a].ratio)
          \/ /\ nodes'[a].ratio = Ratio(-1, 1)
             /\ \E r \in {computeAdjustmentRatio(nodes[a], b)[2]} :
                   IsAdjustmentRatio(a, r) /\ RLess(r, Ratio(-1, 1))]_vars

\* a line to a hyphen, the width of the hyphen counted, that is longer than
\* its target and has shrink: the ratio is negative
C23_PenaltyWidthCounts ==
  /\ pc = "inner" /\ WellFormed /\ PositiveLines
  /\ par(b) = Hyphen
  /\ LineLength(a) = sumsBefore(b)[1] - nodes[a].totalwidth + 1
  /\ LineLength(a) > LineTarget(a)
  /\ ExtPositive(LineShrink(a))
  /\ RLess(computeAdjustmentRatio(nodes[a], b)[2], Ratio(0, 1))

(***************************************************************************)
(* C24.  The demerits of a line.                                           *)
(***************************************************************************)
\* the demerits of the line of ratio r and class c from node n to item b
LineDemerits(n, r, c) ==
  LET \* (1 + 100 |r|^3 + extra)^2 for a finite ratio r
      Squared(extra) ==
        LET x == DemAdd(DemOfInt(1 + extra),
                        Dem(BigOf(100 * Abs(r.n) * Abs(r.n) * Abs(r.n)), <<>>,
                            BigOf(r.d * r.d * r.d)))
        IN  Dem(BigMul(x.p, x.p), <<>>, BigMul(x.d, x.d))
      bp   == par(b).penalty
      \* beta for the ratio r and the penalty bp of item b
      Beta ==
        CASE bp.k = "fin" /\ bp.v >= 0 -> Squared(bp.v)
          [] bp.k = "fin" /\ bp.v < 0  -> DemAdd(Squared(0), DemOfInt(0 - bp.v * bp.v))
          [] bp.k = "ninf"             -> Squared(0)
  IN  DemAdd(DemAdd(DemAdd(Beta,
                           DemOfInt(alpha * par(b).flagged * par(nodes[n].position).flagged)),
                    DemOfInt(IF Abs(c - nodes[n].fitness) > 1 THEN gamma ELSE 0)),
             nodes[n].totaldemerits)

\* C24: the demerits mainLoop records for the line from a to b, of ratio r
\* and class c, are beta + alpha * item[b].flag * item[a.position].flag, plus
\* gamma iff |c - a.fitness| > 1, plus a.totaldemerits, where beta is
\* (1 + 100|r|^3 + bp)^2 for bp >= 0, (1 + 100|r|^3)^2 - bp^2 for a finite
\* bp < 0 and (1 + 100|r|^3)^2 for bp = -Infinity; the node created for the
\* class carries them.
C24_Demerits ==
  /\ []((pc = "insert") =>
          \A c \in 0..3 :
            DemLess(D[c], DInf) =>
              DemEq(D[c], LineDemerits(Ac[c], nodes[Ac[c]].ratio, c)))
  /\ [][pc = "insert" =>
          \A n \in Created :
            DemEq(nodes'[n].totaldemerits,
                  LineDemerits(nodes'[n].previous, nodes[nodes'[n].previous].ratio,
                               nodes'[n].fitness))]_vars

\* a line of ratio 0 from a break at a flagged hyphen to a flagged penalty of
\* -10, alpha = 3000: (1 + 0)^2 - 100 + 3000 on top of the 2601 of the line
\* to the hyphen
C24_RewardedFlaggedBreak ==
  /\ pc = "insert" /\ WellFormed /\ PositiveLines
  /\ alpha = 3000
  /\ par(b) = Bonus
  /\ Ac[1] # null /\ par(nodes[Ac[1]].position) = Hyphen
  /\ nodes[Ac[1]].totaldemerits = DemOfInt(2601)
  /\ nodes[Ac[1]].ratio = Ratio(0, 1)
  /\ DemEq(D[1], DemOfInt(5502))

(***************************************************************************)
(* C25.  The fitness class of a node and of a returned ratio.              *)
(***************************************************************************)
\* the class of a ratio: 0 below -1/2, 1 up to 1/2, 2 up to 1, 3 above
ClassOfRatio(r) ==
  CASE RLess(r, Ratio(-1, 2))                             -> 0
    [] RLeq(Ratio(-1, 2), r) /\ RLeq(r, Ratio(1, 2))      -> 1
    [] RLess(Ratio(1, 2), r) /\ RLeq(r, Ratio(1, 1))      -> 2
    [] OTHER                                              -> 3

\* the fitness of each created node is the class of the ratio of the line
\* that ends at it
NodeFitnessFromRatio ==
  \A n \in BreakNodes :
    nodes[n].fitness
      = ClassOfRatio(lineRatio(nodes[nodes[n].previous], nodes[n].position))

\* C25: the fitness of every created node is 0, 1, 2 or 3 as the ratio r of
\* the line ending at it is below -0.5, in [-0.5, 0.5], in (0.5, 1] or above
\* 1; and the class these boundaries give for each returned ratios[i] is the
\* fitness of the node that ends line i.
C25_FitnessClass ==
  /\ NodeFitnessFromRatio
  /\ pc = "done" =>
        \A k \in 1..LastLine :
          ClassOfRatio(ratios(k)) = nodes[hops(chosen, LastLine - k)].fitness

\* constructor tuning: a returned ratio whose class is not the fitness of the
\* node that ends its line, while every node has the class of its own line
C25_ReturnedRatioOfOtherClass ==
  /\ pc = "done" /\ DefaultTuning /\ WellFormed /\ PositiveLines
  /\ NodeFitnessFromRatio
  /\ \E k \in 1..LastLine :
        ClassOfRatio(ratios(k)) # nodes[hops(chosen, LastLine - k)].fitness

(***************************************************************************)
(* C26.  The running sums of the scan.                                     *)
(***************************************************************************)
\* what passing item i adds to the sums
Contribution(i) ==
  CASE par(i).type = "box"  -> <<par(i).width, Fin(0), Fin(0)>>
    [] par(i).type = "glue" -> <<par(i).width, par(i).stretchability, par(i).shrinkability>>
    [] OTHER                -> <<0, Fin(0), Fin(0)>>

\* break() is in its loop over the items
Scanning == pc \in {"scan", "inner", "insert"}

\* C26: passing a box adds its width to sum_w; the (w, y, z) of a glue are
\* added when the scan moves past it, after the main loop for that glue, if
\* any, has run, so that the sums mainLoop(b) sees exclude glue b; a penalty
\* adds nothing; mainLoop leaves sum_w, sum_y and sum_z unchanged.
C26_RunningSums ==
  \* while item b is looked at, in mainLoop(b) too, the sums hold the boxes
  \* and glue before b, and no penalty
  /\ [](Scanning =>
          /\ <<sum_w, sum_y, sum_z>> = sumsBefore(b)
          /\ sum_w = widthBetween(0, b))
  \* the scan moves past item b: the sums grow by what the item contributes
  /\ [][(Scanning /\ b' = b + 1) =>
          /\ sum_w' = sum_w + Contribution(b)[1]
          /\ sum_y' = ExtAdd(sum_y, Contribution(b)[2])
          /\ sum_z' = ExtAdd(sum_z, Contribution(b)[3])]_vars
  \* every other step of the scan, those of mainLoop among them, leaves the
  \* sums as they are
  /\ [][(Scanning /\ b' = b) => UNCHANGED sums]_vars

\* mainLoop runs at a glue of positive width, after a hyphen of positive
\* width was passed: sum_w is less than the width of the items before b, and
\* the stretch of glue b is not in sum_y
C26_MainLoopAtGlue ==
  /\ pc = "inner" /\ WellFormed /\ PositiveLines
  /\ par(b) = WordGlue
  /\ \E i \in 0..(b - 1) : par(i) = Hyphen
  /\ sum_w < widthFrom(SubSeq(paragraph, 1, b), 1)
  /\ sum_y = Fin(0)

(***************************************************************************)
(* C27.  The target length of a line.                                      *)
(***************************************************************************)
\* element k of lines_array, k counted from 0 as the program counts
ScheduleEntry(k) == lines_array[k + 1]

\* the element of the schedule line j is measured against
TargetIndex(j) == IF j <= Len(lines_array) - 1 THEN j ELSE Len(lines_array) - 1

\* C27: for a schedule of n >= 1 lengths, lines(j) is lines_array[j] for
\* j <= n - 1 and lines_array[n - 1] for j >= n; the line mainLoop measures
\* from an active node a is line j = a.line + 1 >= 1 and its target is that
\* element, so for n >= 2 the first line is measured against the second
\* element and no line against lines_array[0].
C27_LineLengthLookup ==
  Len(lines_array) >= 1 =>
    /\ \A j \in 0..(Len(lines_array) + 1) :
          lines(j) = Defined(ScheduleEntry(TargetIndex(j)))
    /\ pc = "inner" =>
          LET j == nodes[a].line + 1
          IN  /\ j >= 1
              /\ computeAdjustmentRatio(nodes[a], b)[1] = j
              /\ LineTarget(a) = ScheduleEntry(TargetIndex(j))
              /\ Len(lines_array) >= 2 => TargetIndex(j) # 0
              /\ (Len(lines_array) >= 2 /\ j = 1) => LineTarget(a) = ScheduleEntry(1)

\* a first line that fits the first length of the schedule and is longer
\* than the second: it is shrunk
C27_FirstLineAgainstSecondLength ==
  /\ pc = "inner" /\ WellFormed /\ PositiveLines
  /\ Len(lines_array) >= 2 /\ nodes[a].line = 0
  /\ LineLength(a) <= ScheduleEntry(0)
  /\ LineLength(a) > ScheduleEntry(1)
  /\ RLess(computeAdjustmentRatio(nodes[a], b)[2], Ratio(0, 1))

(***************************************************************************)
(* C28.  The range of the returned ratios.                                 *)
(***************************************************************************)
\* r is a finite number in [-1, roh]
FiniteFeasible(r) == r.k = "fin" /\ RLeq(Ratio(-1, 1), r) /\ RLeq(r, roh)

\* C28: every ratios[k], 1 <= k <= line count, of a result is a finite
\* number with -1 <= ratios[k] <= roh, never below -1 (also for a recovered
\* overfull line), never +Infinity, NaN or undefined: the ratio field of a
\* node is only written inside the feasibility test when the candidate
\* strictly improves its class minimum, and a created node starts with the
\* ratio of its predecessor.
C28_RatiosFiniteAndFeasible ==
  /\ [](pc = "done" => \A k \in 1..LastLine : FiniteFeasible(ratios(k)))
  /\ [](\A n \in 1..Len(nodes) :
          nodes[n].ratio = RUndef \/ FiniteFeasible(nodes[n].ratio))
  \* the ratio field of a node is written only by the turn of the inner loop
  \* on that node, inside the feasibility test, when the candidate is
  \* strictly better than the minimum of its class
  /\ [][Scanning =>
          \A n \in 1..Len(nodes) :
            nodes'[n].ratio # nodes[n].ratio =>
              /\ pc = "inner" /\ n = a
              /\ FiniteFeasible(nodes'[n].ratio)
              /\ \E c \in 0..3 : Ac'[c] = a /\ DemLess(D'[c], D[c])]_vars

\* a result under roh = +Infinity with a recovered overfull line: its ratio
\* is -1
C28_OverfullLineUnderInfiniteRoh ==
  /\ pc = "done" /\ WellFormed /\ PositiveLines
  /\ roh = RInf
  /\ \E k \in 1..LastLine :
        RLess(TrueRatio(k), Ratio(-1, 1)) /\ ratios(k) = Ratio(-1, 1)

(***************************************************************************)
(* C29.  Looseness 0: one pass, one node per class.                        *)
(***************************************************************************)
\* C29: with q = 0, j0() is 0 for every schedule, the early exit never
\* fires and each mainLoop(b) makes one pass over the whole active list; at
\* every moment at most four active nodes share a position and at most one
\* active node exists per pair of position and fitness.
C29_OnePassOneNodePerClass ==
  LET \* the early exit of lines 946-947 would be taken after the turn on
      \* node a
      EarlyExit ==
        /\ nodes[a].link # null
        /\ nodes[nodes[a].link].line >= nodes[a].line + 1
        /\ (j0.k = "pinf" \/ nodes[a].line + 1 < j0.v)
      \* a pass ends only at the end of the active list, and the end of the
      \* pass is the end of mainLoop(b)
      SinglePass ==
        /\ pc = "inner" => ~EarlyExit
        /\ pc = "insert" => a = null
      \* no two active nodes have the same position and the same fitness
      OnePerPositionAndClass ==
        \A n1, n2 \in ActiveNodes :
          (nodes[n1].position = nodes[n2].position
             /\ nodes[n1].fitness = nodes[n2].fitness) => n1 = n2
      \* at most four active nodes have the same position
      AtMostFourPerPosition ==
        \A n \in ActiveNodes :
          Cardinality({k \in ActiveNodes : nodes[k].position = nodes[n].position}) <= 4
  IN  (q = 0 /\ Scanning) =>
        /\ j0 = Fin(0)
        /\ SinglePass
        /\ AtMostFourPerPosition
        /\ OnePerPositionAndClass

\* q = 0, one pass per mainLoop: the start node and a node created for a
\* break at item 0 are both active, both of position 0 and fitness 1
C29_TwoActiveNodesAtItemZero ==
  /\ q = 0 /\ pc = "scan" /\ WellFormed /\ PositiveLines
  /\ j0 = Fin(0)
  /\ \E n \in ActiveNodes :
        /\ n # 1 /\ 1 \in ActiveNodes
        /\ nodes[n].position = 0 /\ nodes[n].fitness = nodes[1].fitness

(***************************************************************************)
(* C30.  No break at the finishing glue.                                   *)
(***************************************************************************)
\* node n was created for a break at the finishing glue
AtFinishingGlue(n) == n \in BreakNodes /\ nodes[n].position = m - 2

\* C30: for a paragraph closed by the finishing glue at m - 2 and the
\* forcing penalty at m - 1, on a schedule of positive lengths and for any
\* roh, +Infinity included: a node created at the finishing glue is never
\* the previous node of a node created at m - 1, because its stretch
\* difference Infinity - Infinity is not > 0, its ratio is +Infinity and its
\* demerits never improve a class minimum; so no breakpoint of a result is
\* m - 2 and the last line of a result holds a box if the paragraph has one.
C30_NoBreakAtFinishingGlue ==
  /\ []((WellFormed /\ PositiveLines) =>
          /\ \A n \in BreakNodes :
                nodes[n].position = m - 1 => ~AtFinishingGlue(nodes[n].previous)
          /\ pc = "done" =>
                /\ \A k \in 1..LastLine : breakpoints(k) # m - 2
                \* a box lies between the last two breakpoints
                /\ (\E i \in 0..(m - 1) : par(i).type = "box") =>
                      \E i \in breakpoints(LastLine - 1)..(m - 1) :
                        par(i).type = "box")
  \* mainLoop(m - 1) on a node created at the finishing glue: the ratio is
  \* +Infinity and the node is not recorded as a predecessor
  /\ [][(WellFormed /\ PositiveLines /\ pc = "inner" /\ b = m - 1
            /\ AtFinishingGlue(a)) =>
          /\ LineStretch(a) = NaN
          /\ computeAdjustmentRatio(nodes[a], b)[2] = RInf
          /\ ~Recorded]_vars

\* roh = +Infinity: mainLoop(m - 1) is on an active node created at the
\* finishing glue, whose ratio +Infinity passes the test r <= roh
C30_FinishingGlueNodeTested ==
  /\ pc = "inner" /\ b = m - 1 /\ WellFormed /\ PositiveLines
  /\ roh = RInf
  /\ AtFinishingGlue(a) /\ a \in ActiveNodes
  /\ feasible(computeAdjustmentRatio(nodes[a], b)[2])

====
